---- MODULE Spec2Model ----
\* Earth Agent: the orchestration pipeline that turns one user request into a
\* feasibility verdict, a plan, a dataset list, generated code and a summary.
\*
\* Two revisions of the orchestrator are modelled, each from its source:
\*   Spec        the "minimal" sequential workflow of src/src/lib/agents/index.ts
\*               (processingFunction and the wrapper returned by
\*               initializeAgentSystem);
\*   SpecAgents  the agent-based workflow of src/unnamed/part_006 with the agents
\*               of planner.ts, databaseSelector.ts, part_010 (code generator),
\*               codeDebugger.ts, part_009 (summarizer) and the Bridge wrappers of
\*               src/src/lib/tools/index.ts.
\*
\* Text is modelled as sequences of one-character strings so that substring
\* tests, splitting, lower-casing and regular-expression extraction are computed
\* as the code computes them.
EXTENDS Integers, Sequences, FiniteSets, TLC

\* ---------------------------------------------------------------------------
\* String helpers (JavaScript String methods used by the code).

UpperChars ==
    <<"A", "B", "C", "D", "E", "F", "G", "H", "I", "J", "K", "L", "M",
      "N", "O", "P", "Q", "R", "S", "T", "U", "V", "W", "X", "Y", "Z">>

LowerChars ==
    <<"a", "b", "c", "d", "e", "f", "g", "h", "i", "j", "k", "l", "m",
      "n", "o", "p", "q", "r", "s", "t", "u", "v", "w", "x", "y", "z">>

DigitChars ==
    {"0", "1", "2", "3", "4", "5", "6", "7", "8", "9"}

\* \s of a JavaScript regular expression, restricted to the characters in use.
WhiteSpace ==
    {" ", "\n", "\t"}

\* The grave accent character (a TLA+ string literal cannot hold it).
Backtick ==
    "grave"

Range(f) ==
    {f[i] : i \in DOMAIN f}

\* \w of a JavaScript regular expression.
WordChars ==
    Range(UpperChars) \cup Range(LowerChars) \cup DigitChars \cup {"_"}

LowerChar(c) ==
    IF \E i \in 1..26 : UpperChars[i] = c
    THEN LowerChars[CHOOSE i \in 1..26 : UpperChars[i] = c]
    ELSE c

\* String.prototype.toLowerCase
ToLowerCase(s) ==
    [i \in 1..Len(s) |-> LowerChar(s[i])]

\* s starts with sub at (1-based) position i
MatchAt(s, sub, i) ==
    /\ i >= 1
    /\ i + Len(sub) - 1 <= Len(s)
    /\ \A k \in 1..Len(sub) : s[i + k - 1] = sub[k]

\* String.prototype.includes
Includes(s, sub) ==
    \E i \in 1..(Len(s) - Len(sub) + 1) : MatchAt(s, sub, i)

\* least position >= from at which sub occurs in s, 0 when there is none
IndexOfFrom(s, sub, from) ==
    LET hits == {i \in from..(Len(s) - Len(sub) + 1) : MatchAt(s, sub, i)}
    IN  IF hits = {} THEN 0 ELSE CHOOSE i \in hits : \A j \in hits : i <= j

\* number of non-overlapping occurrences of the non-empty text t in s, scanning
\* left to right: s.match(new RegExp(t, 'g')).length and s.split(t).length - 1
RECURSIVE CountFrom(_, _, _)
CountFrom(s, t, from) ==
    LET i == IndexOfFrom(s, t, from)
    IN  IF i = 0 THEN 0 ELSE 1 + CountFrom(s, t, i + Len(t))

CountOccurrences(s, t) ==
    CountFrom(s, t, 1)

\* The maximal runs of characters c of s with (c \in chars) = inSet, in order.
\* s.split(/\W+/) and s.split(/\s+/) give these runs plus, possibly, empty
\* strings at the ends, which every caller filters out by length.
RECURSIVE RunsFrom(_, _, _, _, _)
RunsFrom(s, chars, inSet, i, cur) ==
    IF i > Len(s)
    THEN IF cur = <<>> THEN <<>> ELSE <<cur>>
    ELSE IF (s[i] \in chars) = inSet
         THEN RunsFrom(s, chars, inSet, i + 1, Append(cur, s[i]))
         ELSE IF cur = <<>>
              THEN RunsFrom(s, chars, inSet, i + 1, <<>>)
              ELSE <<cur>> \o RunsFrom(s, chars, inSet, i + 1, <<>>)

Runs(s, chars, inSet) ==
    RunsFrom(s, chars, inSet, 1, <<>>)

\* Array.prototype.filter with the predicate "length > n"
RECURSIVE LongerThan(_, _)
LongerThan(seq, n) ==
    IF seq = <<>> THEN <<>>
    ELSE IF Len(Head(seq)) > n
         THEN <<Head(seq)>> \o LongerThan(Tail(seq), n)
         ELSE LongerThan(Tail(seq), n)

\* String.prototype.trim
RECURSIVE TrimStart(_)
TrimStart(s) ==
    IF s # <<>> /\ Head(s) \in WhiteSpace THEN TrimStart(Tail(s)) ELSE s

RECURSIVE TrimEnd(_)
TrimEnd(s) ==
    IF s # <<>> /\ s[Len(s)] \in WhiteSpace
    THEN TrimEnd(SubSeq(s, 1, Len(s) - 1))
    ELSE s

Trim(s) ==
    TrimEnd(TrimStart(s))

\* sum of f[i] over a sequence of numbers
RECURSIVE SumSeq(_)
SumSeq(f) ==
    IF f = <<>> THEN 0 ELSE Head(f) + SumSeq(Tail(f))

\* Array.prototype.sort with the comparator (a, b) => b.score - a.score: a
\* stable sort by descending score (insertion keeps equal scores in order).
\* seq is a sequence of records with a field score.
RECURSIVE InsertByScore(_, _)
InsertByScore(sorted, x) ==
    IF sorted = <<>> THEN <<x>>
    ELSE IF Head(sorted).score >= x.score
         THEN <<Head(sorted)>> \o InsertByScore(Tail(sorted), x)
         ELSE <<x>> \o sorted

RECURSIVE SortByScoreDesc(_)
SortByScoreDesc(seq) ==
    IF seq = <<>> THEN <<>>
    ELSE InsertByScore(SortByScoreDesc(SubSeq(seq, 1, Len(seq) - 1)), seq[Len(seq)])

\* Array.prototype.slice(0, n)
Slice0(seq, n) ==
    SubSeq(seq, 1, IF Len(seq) < n THEN Len(seq) ELSE n)

\* ---------------------------------------------------------------------------
\* Keyword lists of assessProblem (src/src/lib/tools/index.ts:275-288).
\* Strings are sequences of one-character strings.
positiveKeywords ==
    <<
      <<"m", "a", "p">>,  \* map
      <<"s", "a", "t", "e", "l", "l", "i", "t", "e">>,  \* satellite
      <<"i", "m", "a", "g", "e">>,  \* image
      <<"e", "l", "e", "v", "a", "t", "i", "o", "n">>,  \* elevation
      <<"t", "e", "r", "r", "a", "i", "n">>,  \* terrain
      <<"l", "a", "n", "d", "s", "a", "t">>,  \* landsat
      <<"s", "e", "n", "t", "i", "n", "e", "l">>,  \* sentinel
      <<"m", "o", "d", "i", "s">>,  \* modis
      <<"n", "d", "v", "i">>,  \* ndvi
      <<"v", "e", "g", "e", "t", "a", "t", "i", "o", "n">>,  \* vegetation
      <<"f", "o", "r", "e", "s", "t">>,  \* forest
      <<"w", "a", "t", "e", "r">>,  \* water
      <<"l", "a", "n", "d", " ", "c", "o", "v", "e", "r">>,  \* land cover
      <<"t", "e", "m", "p", "e", "r", "a", "t", "u", "r", "e">>,  \* temperature
      <<"c", "l", "i", "m", "a", "t", "e">>,  \* climate
      <<"f", "l", "o", "o", "d">>,  \* flood
      <<"d", "r", "o", "u", "g", "h", "t">>,  \* drought
      <<"f", "i", "r", "e">>,  \* fire
      <<"u", "r", "b", "a", "n">>,  \* urban
      <<"a", "g", "r", "i", "c", "u", "l", "t", "u", "r", "e">>,  \* agriculture
      <<"t", "i", "m", "e", " ", "s", "e", "r", "i", "e", "s">>,  \* time series
      <<"c", "h", "a", "n", "g", "e">>,  \* change
      <<"d", "e", "t", "e", "c", "t", "i", "o", "n">>,  \* detection
      <<"g", "l", "a", "c", "i", "e", "r">>,  \* glacier
      <<"s", "n", "o", "w">>,  \* snow
      <<"r", "a", "i", "n", "f", "a", "l", "l">>,  \* rainfall
      <<"p", "r", "e", "c", "i", "p", "i", "t", "a", "t", "i", "o", "n">>,  \* precipitation
      <<"l", "a", "n", "d", "s", "l", "i", "d", "e">>,  \* landslide
      <<"e", "r", "o", "s", "i", "o", "n">>,  \* erosion
      <<"d", "e", "f", "o", "r", "e", "s", "t", "a", "t", "i", "o", "n">>,  \* deforestation
      <<"r", "e", "f", "o", "r", "e", "s", "t", "a", "t", "i", "o", "n">>,  \* reforestation
      <<"c", "r", "o", "p", "l", "a", "n", "d">>  \* cropland
    >>

negativeKeywords ==
    <<
      <<"i", "n", "d", "o", "o", "r">>,  \* indoor
      <<"i", "n", "d", "o", "o", "r", " ", "m", "a", "p">>,  \* indoor map
      <<"s", "t", "r", "e", "e", "t", " ", "v", "i", "e", "w">>,  \* street view
      <<"n", "a", "v", "i", "g", "a", "t", "i", "o", "n">>,  \* navigation
      <<"d", "r", "i", "v", "i", "n", "g", " ", "d", "i", "r", "e", "c", "t", "i", "o", "n",
        "s">>,  \* driving directions
      <<"t", "r", "a", "f", "f", "i", "c">>,  \* traffic
      <<"r", "e", "s", "t", "a", "u", "r", "a", "n", "t">>,  \* restaurant
      <<"h", "o", "t", "e", "l">>,  \* hotel
      <<"b", "o", "o", "k", "i", "n", "g">>,  \* booking
      <<"f", "l", "i", "g", "h", "t">>,  \* flight
      <<"w", "e", "a", "t", "h", "e", "r", " ", "f", "o", "r", "e", "c", "a", "s", "t">>,  \* weather forecast
      <<"s", "t", "o", "c", "k">>,  \* stock
      <<"m", "a", "r", "k", "e", "t">>,  \* market
      <<"e", "x", "c", "h", "a", "n", "g", "e", " ", "r", "a", "t", "e">>,  \* exchange rate
      <<"c", "u", "r", "r", "e", "n", "c", "y">>,  \* currency
      <<"n", "e", "w", "s">>,  \* news
      <<"s", "o", "c", "i", "a", "l", " ", "m", "e", "d", "i", "a">>  \* social media
    >>

\* ---------------------------------------------------------------------------
\* documentationData (src/src/lib/tools/databaseSearch.ts:169-318), one record per
\* snippet: title, apiClass, apiFunction (<<>> when absent), content, and
\* examples joined with a blank as calculateRelevance joins them.
\* The text is stored as the source writes it; ToLowerCase is applied where the
\* code applies it.
documentationData ==
    LET \* ee.Image - Constructor
        Doc1 ==
            [title |->
                <<"e", "e", ".", "I", "m", "a", "g", "e", " ", "-", " ", "C", "o", "n", "s", "t", "r",
                  "u", "c", "t", "o", "r">>,
             apiClass |->
                <<"e", "e", ".", "I", "m", "a", "g", "e">>,
             apiFunction |->
                <<>>,
             content |->
                <<"C", "r", "e", "a", "t", "e", "s", " ", "a", "n", " ", "e", "a", "r", "t", "h", " ",
                  "e", "n", "g", "i", "n", "e", " ", "i", "m", "a", "g", "e", ".", " ", "T", "h", "e",
                  " ", "I", "m", "a", "g", "e", " ", "c", "o", "n", "s", "t", "r", "u", "c", "t", "o",
                  "r", " ", "a", "c", "c", "e", "p", "t", "s", " ", "a", " ", "v", "a", "r", "i", "e",
                  "t", "y", " ", "o", "f", " ", "a", "r", "g", "u", "m", "e", "n", "t", "s", ":", " ",
                  "c", "o", "n", "s", "t", "a", "n", "t", " ", "v", "a", "l", "u", "e", ",", " ", "E",
                  "E", " ", "o", "b", "j", "e", "c", "t", ",", " ", "a", "s", "s", "e", "t", " ", "I",
                  "D", ",", " ", "a", "r", "r", "a", "y", ",", " ", "a", "r", "r", "a", "y", " ", "o",
                  "f", " ", "a", "r", "r", "a", "y", "s", ".">>,
             hasExamples |-> TRUE,
             examples |->
                <<"/", "/", " ", "C", "r", "e", "a", "t", "e", " ", "a", " ", "c", "o", "n", "s", "t",
                  "a", "n", "t", " ", "i", "m", "a", "g", "e", ".", " ", "v", "a", "r", " ", "i", "m",
                  "a", "g", "e", " ", "=", " ", "e", "e", ".", "I", "m", "a", "g", "e", "(", "1", ")",
                  ";", " ", "/", "/", " ", "C", "r", "e", "a", "t", "e", " ", "a", "n", " ", "i", "m",
                  "a", "g", "e", " ", "f", "r", "o", "m", " ", "a", "n", " ", "a", "s", "s", "e", "t",
                  " ", "I", "D", ".", " ", "v", "a", "r", " ", "i", "m", "a", "g", "e", " ", "=", " ",
                  "e", "e", ".", "I", "m", "a", "g", "e", "(", "'", "L", "A", "N", "D", "S", "A", "T",
                  "/", "L", "C", "0", "8", "/", "C", "0", "2", "/", "T", "1", "_", "L", "2", "/", "L",
                  "C", "0", "8", "_", "0", "4", "4", "0", "3", "4", "_", "2", "0", "2", "1", "0", "5",
                  "0", "8", "'", ")", ";">>]

        \* ee.ImageCollection - Constructor
        Doc2 ==
            [title |->
                <<"e", "e", ".", "I", "m", "a", "g", "e", "C", "o", "l", "l", "e", "c", "t", "i", "o",
                  "n", " ", "-", " ", "C", "o", "n", "s", "t", "r", "u", "c", "t", "o", "r">>,
             apiClass |->
                <<"e", "e", ".", "I", "m", "a", "g", "e", "C", "o", "l", "l", "e", "c", "t", "i", "o",
                  "n">>,
             apiFunction |->
                <<>>,
             content |->
                <<"C", "r", "e", "a", "t", "e", "s", " ", "a", "n", " ", "e", "a", "r", "t", "h", " ",
                  "e", "n", "g", "i", "n", "e", " ", "i", "m", "a", "g", "e", " ", "c", "o", "l", "l",
                  "e", "c", "t", "i", "o", "n", ".", " ", "T", "h", "e", " ", "c", "o", "n", "s", "t",
                  "r", "u", "c", "t", "o", "r", " ", "a", "c", "c", "e", "p", "t", "s", " ", "a", " ",
                  "v", "a", "r", "i", "e", "t", "y", " ", "o", "f", " ", "a", "r", "g", "u", "m", "e",
                  "n", "t", "s", ":", " ", "f", "i", "l", "t", "e", "r", ",", " ", "l", "i", "s", "t",
                  ",", " ", "a", "s", "s", "e", "t", " ", "I", "D", ",", " ", "e", "t", "c", ".">>,
             hasExamples |-> TRUE,
             examples |->
                <<"/", "/", " ", "C", "r", "e", "a", "t", "e", " ", "a", "n", " ", "I", "m", "a", "g",
                  "e", "C", "o", "l", "l", "e", "c", "t", "i", "o", "n", " ", "f", "r", "o", "m", " ",
                  "a", "n", " ", "a", "s", "s", "e", "t", " ", "I", "D", ".", " ", "v", "a", "r", " ",
                  "c", "o", "l", "l", "e", "c", "t", "i", "o", "n", " ", "=", " ", "e", "e", ".", "I",
                  "m", "a", "g", "e", "C", "o", "l", "l", "e", "c", "t", "i", "o", "n", "(", "'", "L",
                  "A", "N", "D", "S", "A", "T", "/", "L", "C", "0", "8", "/", "C", "0", "2", "/", "T",
                  "1", "_", "L", "2", "'", ")", ";">>]

        \* ee.ImageCollection.filterDate
        Doc3 ==
            [title |->
                <<"e", "e", ".", "I", "m", "a", "g", "e", "C", "o", "l", "l", "e", "c", "t", "i", "o",
                  "n", ".", "f", "i", "l", "t", "e", "r", "D", "a", "t", "e">>,
             apiClass |->
                <<"e", "e", ".", "I", "m", "a", "g", "e", "C", "o", "l", "l", "e", "c", "t", "i", "o",
                  "n">>,
             apiFunction |->
                <<"f", "i", "l", "t", "e", "r", "D", "a", "t", "e">>,
             content |->
                <<"F", "i", "l", "t", "e", "r", " ", "a", "n", " ", "i", "m", "a", "g", "e", " ", "c",
                  "o", "l", "l", "e", "c", "t", "i", "o", "n", " ", "b", "y", " ", "d", "a", "t", "e",
                  " ", "r", "a", "n", "g", "e", ".", " ", "A", "c", "c", "e", "p", "t", "s", " ", "s",
                  "t", "a", "r", "t", " ", "a", "n", "d", " ", "e", "n", "d", " ", "d", "a", "t", "e",
                  "s", " ", "a", "s", " ", "a", "r", "g", "u", "m", "e", "n", "t", "s", ".">>,
             hasExamples |-> TRUE,
             examples |->
                <<"/", "/", " ", "F", "i", "l", "t", "e", "r", " ", "a", " ", "c", "o", "l", "l", "e",
                  "c", "t", "i", "o", "n", " ", "b", "y", " ", "d", "a", "t", "e", ".", " ", "v", "a",
                  "r", " ", "f", "i", "l", "t", "e", "r", "e", "d", " ", "=", " ", "c", "o", "l", "l",
                  "e", "c", "t", "i", "o", "n", ".", "f", "i", "l", "t", "e", "r", "D", "a", "t", "e",
                  "(", "'", "2", "0", "2", "1", "-", "0", "1", "-", "0", "1", "'", ",", " ", "'", "2",
                  "0", "2", "1", "-", "1", "2", "-", "3", "1", "'", ")", ";">>]

        \* ee.Image.clip
        Doc4 ==
            [title |->
                <<"e", "e", ".", "I", "m", "a", "g", "e", ".", "c", "l", "i", "p">>,
             apiClass |->
                <<"e", "e", ".", "I", "m", "a", "g", "e">>,
             apiFunction |->
                <<"c", "l", "i", "p">>,
             content |->
                <<"C", "l", "i", "p", " ", "a", "n", " ", "i", "m", "a", "g", "e", " ", "t", "o", " ",
                  "a", " ", "g", "e", "o", "m", "e", "t", "r", "y", ".", " ", "A", "c", "c", "e", "p",
                  "t", "s", " ", "a", " ", "f", "e", "a", "t", "u", "r", "e", ",", " ", "f", "e", "a",
                  "t", "u", "r", "e", " ", "c", "o", "l", "l", "e", "c", "t", "i", "o", "n", ",", " ",
                  "o", "r", " ", "g", "e", "o", "m", "e", "t", "r", "y", " ", "a", "s", " ", "a", "n",
                  " ", "a", "r", "g", "u", "m", "e", "n", "t", ".">>,
             hasExamples |-> TRUE,
             examples |->
                <<"/", "/", " ", "C", "l", "i", "p", " ", "a", "n", " ", "i", "m", "a", "g", "e", " ",
                  "t", "o", " ", "a", " ", "g", "e", "o", "m", "e", "t", "r", "y", ".", " ", "v", "a",
                  "r", " ", "c", "l", "i", "p", "p", "e", "d", " ", "=", " ", "i", "m", "a", "g", "e",
                  ".", "c", "l", "i", "p", "(", "g", "e", "o", "m", "e", "t", "r", "y", ")", ";">>]

        \* ee.Image.normalizedDifference
        Doc5 ==
            [title |->
                <<"e", "e", ".", "I", "m", "a", "g", "e", ".", "n", "o", "r", "m", "a", "l", "i", "z",
                  "e", "d", "D", "i", "f", "f", "e", "r", "e", "n", "c", "e">>,
             apiClass |->
                <<"e", "e", ".", "I", "m", "a", "g", "e">>,
             apiFunction |->
                <<"n", "o", "r", "m", "a", "l", "i", "z", "e", "d", "D", "i", "f", "f", "e", "r", "e",
                  "n", "c", "e">>,
             content |->
                <<"C", "o", "m", "p", "u", "t", "e", " ", "t", "h", "e", " ", "n", "o", "r", "m", "a",
                  "l", "i", "z", "e", "d", " ", "d", "i", "f", "f", "e", "r", "e", "n", "c", "e", " ",
                  "b", "e", "t", "w", "e", "e", "n", " ", "t", "w", "o", " ", "b", "a", "n", "d", "s",
                  ".", " ", "T", "h", "i", "s", " ", "i", "s", " ", "o", "f", "t", "e", "n", " ", "u",
                  "s", "e", "d", " ", "f", "o", "r", " ", "i", "n", "d", "i", "c", "e", "s", " ", "l",
                  "i", "k", "e", " ", "N", "D", "V", "I", ".">>,
             hasExamples |-> TRUE,
             examples |->
                <<"/", "/", " ", "C", "o", "m", "p", "u", "t", "e", " ", "N", "D", "V", "I", " ", "f",
                  "r", "o", "m", " ", "N", "I", "R", " ", "a", "n", "d", " ", "r", "e", "d", " ", "b",
                  "a", "n", "d", "s", ".", " ", "v", "a", "r", " ", "n", "d", "v", "i", " ", "=", " ",
                  "i", "m", "a", "g", "e", ".", "n", "o", "r", "m", "a", "l", "i", "z", "e", "d", "D",
                  "i", "f", "f", "e", "r", "e", "n", "c", "e", "(", "[", "'", "N", "I", "R", "'", ",",
                  " ", "'", "R", "E", "D", "'", "]", ")", ";">>]

        \* ee.Reducer.mean
        Doc6 ==
            [title |->
                <<"e", "e", ".", "R", "e", "d", "u", "c", "e", "r", ".", "m", "e", "a", "n">>,
             apiClass |->
                <<"e", "e", ".", "R", "e", "d", "u", "c", "e", "r">>,
             apiFunction |->
                <<"m", "e", "a", "n">>,
             content |->
                <<"C", "r", "e", "a", "t", "e", " ", "a", " ", "r", "e", "d", "u", "c", "e", "r", " ",
                  "t", "h", "a", "t", " ", "c", "o", "m", "p", "u", "t", "e", "s", " ", "t", "h", "e",
                  " ", "m", "e", "a", "n", " ", "o", "f", " ", "v", "a", "l", "u", "e", "s", ".", " ",
                  "T", "h", "i", "s", " ", "i", "s", " ", "c", "o", "m", "m", "o", "n", "l", "y", " ",
                  "u", "s", "e", "d", " ", "w", "i", "t", "h", " ", "r", "e", "d", "u", "c", "e", "R",
                  "e", "g", "i", "o", "n", " ", "o", "r", " ", "r", "e", "d", "u", "c", "e", "N", "e",
                  "i", "g", "h", "b", "o", "r", "h", "o", "o", "d", ".">>,
             hasExamples |-> TRUE,
             examples |->
                <<"/", "/", " ", "C", "o", "m", "p", "u", "t", "e", " ", "t", "h", "e", " ", "m", "e",
                  "a", "n", " ", "v", "a", "l", "u", "e", " ", "i", "n", " ", "a", " ", "r", "e", "g",
                  "i", "o", "n", ".", " ", "v", "a", "r", " ", "m", "e", "a", "n", " ", "=", " ", "i",
                  "m", "a", "g", "e", ".", "r", "e", "d", "u", "c", "e", "R", "e", "g", "i", "o", "n",
                  "(", "{", " ", " ", " ", "r", "e", "d", "u", "c", "e", "r", ":", " ", "e", "e", ".",
                  "R", "e", "d", "u", "c", "e", "r", ".", "m", "e", "a", "n", "(", ")", ",", " ", " ",
                  " ", "g", "e", "o", "m", "e", "t", "r", "y", ":", " ", "r", "e", "g", "i", "o", "n",
                  ",", " ", " ", " ", "s", "c", "a", "l", "e", ":", " ", "3", "0", " ", "}", ")", ";">>]

        \* ee.Feature - Constructor
        Doc7 ==
            [title |->
                <<"e", "e", ".", "F", "e", "a", "t", "u", "r", "e", " ", "-", " ", "C", "o", "n", "s",
                  "t", "r", "u", "c", "t", "o", "r">>,
             apiClass |->
                <<"e", "e", ".", "F", "e", "a", "t", "u", "r", "e">>,
             apiFunction |->
                <<>>,
             content |->
                <<"C", "r", "e", "a", "t", "e", "s", " ", "a", " ", "f", "e", "a", "t", "u", "r", "e",
                  " ", "w", "i", "t", "h", " ", "g", "e", "o", "m", "e", "t", "r", "y", " ", "a", "n",
                  "d", " ", "p", "r", "o", "p", "e", "r", "t", "i", "e", "s", ".", " ", "A", "c", "c",
                  "e", "p", "t", "s", " ", "v", "a", "r", "i", "o", "u", "s", " ", "i", "n", "p", "u",
                  "t", "s", ",", " ", "i", "n", "c", "l", "u", "d", "i", "n", "g", " ", "a", " ", "g",
                  "e", "o", "m", "e", "t", "r", "y", " ", "a", "n", "d", " ", "a", " ", "p", "r", "o",
                  "p", "e", "r", "t", "y", " ", "d", "i", "c", "t", "i", "o", "n", "a", "r", "y", ".">>,
             hasExamples |-> TRUE,
             examples |->
                <<"/", "/", " ", "C", "r", "e", "a", "t", "e", " ", "a", " ", "f", "e", "a", "t", "u",
                  "r", "e", " ", "w", "i", "t", "h", " ", "a", " ", "p", "o", "i", "n", "t", " ", "g",
                  "e", "o", "m", "e", "t", "r", "y", " ", "a", "n", "d", " ", "p", "r", "o", "p", "e",
                  "r", "t", "i", "e", "s", ".", " ", "v", "a", "r", " ", "f", "e", "a", "t", "u", "r",
                  "e", " ", "=", " ", "e", "e", ".", "F", "e", "a", "t", "u", "r", "e", "(", " ", " ",
                  " ", "e", "e", ".", "G", "e", "o", "m", "e", "t", "r", "y", ".", "P", "o", "i", "n",
                  "t", "(", "[", "-", "1", "2", "2", ".", "4", ",", " ", "3", "7", ".", "8", "]", ")",
                  ",", " ", " ", " ", "{", "n", "a", "m", "e", ":", " ", "'", "S", "a", "n", " ", "F",
                  "r", "a", "n", "c", "i", "s", "c", "o", "'", ",", " ", "p", "o", "p", "u", "l", "a",
                  "t", "i", "o", "n", ":", " ", "8", "8", "1", "0", "0", "0", "}", " ", ")", ";">>]

        \* ee.FeatureCollection - Constructor
        Doc8 ==
            [title |->
                <<"e", "e", ".", "F", "e", "a", "t", "u", "r", "e", "C", "o", "l", "l", "e", "c", "t",
                  "i", "o", "n", " ", "-", " ", "C", "o", "n", "s", "t", "r", "u", "c", "t", "o", "r">>,
             apiClass |->
                <<"e", "e", ".", "F", "e", "a", "t", "u", "r", "e", "C", "o", "l", "l", "e", "c", "t",
                  "i", "o", "n">>,
             apiFunction |->
                <<>>,
             content |->
                <<"C", "r", "e", "a", "t", "e", "s", " ", "a", " ", "f", "e", "a", "t", "u", "r", "e",
                  " ", "c", "o", "l", "l", "e", "c", "t", "i", "o", "n", ".", " ", "A", "c", "c", "e",
                  "p", "t", "s", " ", "a", " ", "l", "i", "s", "t", " ", "o", "f", " ", "f", "e", "a",
                  "t", "u", "r", "e", "s", ",", " ", "a", " ", "g", "e", "o", "m", "e", "t", "r", "y",
                  ",", " ", "a", " ", "c", "o", "m", "p", "u", "t", "e", "d", " ", "o", "b", "j", "e",
                  "c", "t", ",", " ", "o", "r", " ", "a", "n", " ", "a", "s", "s", "e", "t", " ", "I",
                  "D", ".">>,
             hasExamples |-> TRUE,
             examples |->
                <<"/", "/", " ", "C", "r", "e", "a", "t", "e", " ", "a", " ", "F", "e", "a", "t", "u",
                  "r", "e", "C", "o", "l", "l", "e", "c", "t", "i", "o", "n", " ", "f", "r", "o", "m",
                  " ", "a", "n", " ", "a", "s", "s", "e", "t", " ", "I", "D", ".", " ", "v", "a", "r",
                  " ", "f", "c", " ", "=", " ", "e", "e", ".", "F", "e", "a", "t", "u", "r", "e", "C",
                  "o", "l", "l", "e", "c", "t", "i", "o", "n", "(", "'", "T", "I", "G", "E", "R", "/",
                  "2", "0", "1", "8", "/", "C", "o", "u", "n", "t", "i", "e", "s", "'", ")", ";", " ",
                  "/", "/", " ", "F", "i", "l", "t", "e", "r", " ", "t", "h", "e", " ", "c", "o", "l",
                  "l", "e", "c", "t", "i", "o", "n", ".", " ", "v", "a", "r", " ", "f", "i", "l", "t",
                  "e", "r", "e", "d", " ", "=", " ", "f", "c", ".", "f", "i", "l", "t", "e", "r", "(",
                  "e", "e", ".", "F", "i", "l", "t", "e", "r", ".", "e", "q", "(", "'", "S", "T", "A",
                  "T", "E", "F", "P", "'", ",", " ", "'", "0", "6", "'", ")", ")", ";">>]

        \* ee.Terrain.slope
        Doc9 ==
            [title |->
                <<"e", "e", ".", "T", "e", "r", "r", "a", "i", "n", ".", "s", "l", "o", "p", "e">>,
             apiClass |->
                <<"e", "e", ".", "T", "e", "r", "r", "a", "i", "n">>,
             apiFunction |->
                <<"s", "l", "o", "p", "e">>,
             content |->
                <<"C", "o", "m", "p", "u", "t", "e", " ", "t", "h", "e", " ", "s", "l", "o", "p", "e",
                  " ", "o", "f", " ", "a", " ", "D", "E", "M", " ", "i", "m", "a", "g", "e", ".", " ",
                  "R", "e", "t", "u", "r", "n", "s", " ", "a", "n", " ", "i", "m", "a", "g", "e", " ",
                  "w", "i", "t", "h", " ", "t", "h", "e", " ", "s", "l", "o", "p", "e", " ", "i", "n",
                  " ", "d", "e", "g", "r", "e", "e", "s", ".">>,
             hasExamples |-> TRUE,
             examples |->
                <<"/", "/", " ", "L", "o", "a", "d", " ", "S", "R", "T", "M", " ", "d", "i", "g", "i",
                  "t", "a", "l", " ", "e", "l", "e", "v", "a", "t", "i", "o", "n", " ", "m", "o", "d",
                  "e", "l", " ", "d", "a", "t", "a", ".", " ", "v", "a", "r", " ", "d", "e", "m", " ",
                  "=", " ", "e", "e", ".", "I", "m", "a", "g", "e", "(", "'", "U", "S", "G", "S", "/",
                  "S", "R", "T", "M", "G", "L", "1", "_", "0", "0", "3", "'", ")", ";", " ", "/", "/",
                  " ", "C", "a", "l", "c", "u", "l", "a", "t", "e", " ", "s", "l", "o", "p", "e", ".",
                  " ", "v", "a", "r", " ", "s", "l", "o", "p", "e", " ", "=", " ", "e", "e", ".", "T",
                  "e", "r", "r", "a", "i", "n", ".", "s", "l", "o", "p", "e", "(", "d", "e", "m", ")",
                  ";", " ", "/", "/", " ", "D", "i", "s", "p", "l", "a", "y", " ", "t", "h", "e", " ",
                  "s", "l", "o", "p", "e", ".", " ", "M", "a", "p", ".", "a", "d", "d", "L", "a", "y",
                  "e", "r", "(", "s", "l", "o", "p", "e", ",", " ", "{", "m", "i", "n", ":", " ", "0",
                  ",", " ", "m", "a", "x", ":", " ", "6", "0", "}", ",", " ", "'", "s", "l", "o", "p",
                  "e", "'", ")", ";">>]

        \* ui.Map.addLayer
        Doc10 ==
            [title |->
                <<"u", "i", ".", "M", "a", "p", ".", "a", "d", "d", "L", "a", "y", "e", "r">>,
             apiClass |->
                <<"u", "i", ".", "M", "a", "p">>,
             apiFunction |->
                <<"a", "d", "d", "L", "a", "y", "e", "r">>,
             content |->
                <<"A", "d", "d", "s", " ", "a", " ", "l", "a", "y", "e", "r", " ", "t", "o", " ", "t",
                  "h", "e", " ", "m", "a", "p", ".", " ", "A", "c", "c", "e", "p", "t", "s", " ", "a",
                  "n", " ", "i", "m", "a", "g", "e", ",", " ", "f", "e", "a", "t", "u", "r", "e", " ",
                  "c", "o", "l", "l", "e", "c", "t", "i", "o", "n", ",", " ", "o", "r", " ", "g", "e",
                  "o", "m", "e", "t", "r", "y", ",", " ", "a", "l", "o", "n", "g", " ", "w", "i", "t",
                  "h", " ", "v", "i", "s", "u", "a", "l", "i", "z", "a", "t", "i", "o", "n", " ", "p",
                  "a", "r", "a", "m", "e", "t", "e", "r", "s", " ", "a", "n", "d", " ", "a", " ", "n",
                  "a", "m", "e", ".">>,
             hasExamples |-> TRUE,
             examples |->
                <<"/", "/", " ", "A", "d", "d", " ", "a", "n", " ", "i", "m", "a", "g", "e", " ", "t",
                  "o", " ", "t", "h", "e", " ", "m", "a", "p", ".", " ", "M", "a", "p", ".", "a", "d",
                  "d", "L", "a", "y", "e", "r", "(", "i", "m", "a", "g", "e", ",", " ", "{", "b", "a",
                  "n", "d", "s", ":", " ", "[", "'", "B", "4", "'", ",", " ", "'", "B", "3", "'", ",",
                  " ", "'", "B", "2", "'", "]", ",", " ", "m", "i", "n", ":", " ", "0", ",", " ", "m",
                  "a", "x", ":", " ", "3", "0", "0", "0", "}", ",", " ", "'", "L", "a", "n", "d", "s",
                  "a", "t", "'", ")", ";">>]

        \* ui.Chart.image.series
        Doc11 ==
            [title |->
                <<"u", "i", ".", "C", "h", "a", "r", "t", ".", "i", "m", "a", "g", "e", ".", "s", "e",
                  "r", "i", "e", "s">>,
             apiClass |->
                <<"u", "i", ".", "C", "h", "a", "r", "t", ".", "i", "m", "a", "g", "e">>,
             apiFunction |->
                <<"s", "e", "r", "i", "e", "s">>,
             content |->
                <<"C", "r", "e", "a", "t", "e", "s", " ", "a", " ", "c", "h", "a", "r", "t", " ", "f",
                  "r", "o", "m", " ", "a", "n", " ", "i", "m", "a", "g", "e", " ", "c", "o", "l", "l",
                  "e", "c", "t", "i", "o", "n", ".", " ", "U", "s", "e", "f", "u", "l", " ", "f", "o",
                  "r", " ", "t", "i", "m", "e", " ", "s", "e", "r", "i", "e", "s", " ", "a", "n", "a",
                  "l", "y", "s", "i", "s", " ", "o", "f", " ", "i", "m", "a", "g", "e", " ", "c", "o",
                  "l", "l", "e", "c", "t", "i", "o", "n", "s", ".">>,
             hasExamples |-> TRUE,
             examples |->
                <<"/", "/", " ", "C", "r", "e", "a", "t", "e", " ", "a", " ", "t", "i", "m", "e", " ",
                  "s", "e", "r", "i", "e", "s", " ", "c", "h", "a", "r", "t", " ", "o", "f", " ", "N",
                  "D", "V", "I", ".", " ", "v", "a", "r", " ", "c", "h", "a", "r", "t", " ", "=", " ",
                  "u", "i", ".", "C", "h", "a", "r", "t", ".", "i", "m", "a", "g", "e", ".", "s", "e",
                  "r", "i", "e", "s", "(", "{", " ", " ", " ", "i", "m", "a", "g", "e", "C", "o", "l",
                  "l", "e", "c", "t", "i", "o", "n", ":", " ", "n", "d", "v", "i", "C", "o", "l", "l",
                  "e", "c", "t", "i", "o", "n", ",", " ", " ", " ", "r", "e", "g", "i", "o", "n", ":",
                  " ", "g", "e", "o", "m", "e", "t", "r", "y", ",", " ", " ", " ", "r", "e", "d", "u",
                  "c", "e", "r", ":", " ", "e", "e", ".", "R", "e", "d", "u", "c", "e", "r", ".", "m",
                  "e", "a", "n", "(", ")", ",", " ", " ", " ", "s", "c", "a", "l", "e", ":", " ", "3",
                  "0", " ", "}", ")", ";">>]
    IN  <<Doc1, Doc2, Doc3, Doc4, Doc5, Doc6, Doc7, Doc8, Doc9, Doc10, Doc11>>
\* ---------------------------------------------------------------------------
\* User requests submitted to the agent system.
\* ""
EmptyInput ==
    <<>>

\* " "
BlankInput ==
    <<" ">>

\* "Show me elevation data for the Grand Canyon"
ElevationInput ==
    <<"S", "h", "o", "w", " ", "m", "e", " ", "e", "l", "e", "v", "a", "t", "i", "o", "n", " ",
      "d", "a", "t", "a", " ", "f", "o", "r", " ", "t", "h", "e", " ", "G", "r", "a", "n", "d",
      " ", "C", "a", "n", "y", "o", "n">>

\* "What's the best pizza in Chicago?"
PizzaInput ==
    <<"W", "h", "a", "t", "'", "s", " ", "t", "h", "e", " ", "b", "e", "s", "t", " ", "p", "i",
      "z", "z", "a", " ", "i", "n", " ", "C", "h", "i", "c", "a", "g", "o", "?">>

\* "hotel booking"
HotelInput ==
    <<"h", "o", "t", "e", "l", " ", "b", "o", "o", "k", "i", "n", "g">>

\* "traffic map"
TrafficMapInput ==
    <<"t", "r", "a", "f", "f", "i", "c", " ", "m", "a", "p">>

\* "pizza"
VagueInput ==
    <<"p", "i", "z", "z", "a">>

Inputs ==
    {EmptyInput, BlankInput, ElevationInput, PizzaInput, HotelInput, TrafficMapInput, VagueInput}

\* ---------------------------------------------------------------------------
\* Replies the completion endpoint may give (external input, bounded).
\* "Use SRTM elevation"
PlanText ==
    <<"U", "s", "e", " ", "S", "R", "T", "M", " ", "e", "l", "e", "v", "a", "t", "i", "o", "n">>

\* "Landsat 8, MODIS\nelevation data"
SelectionNames ==
    <<"L", "a", "n", "d", "s", "a", "t", " ", "8", ",", " ", "M", "O", "D", "I", "S", "\n",
      "e", "l", "e", "v", "a", "t", "i", "o", "n", " ", "d", "a", "t", "a">>

\* "SRTM"
SelectionNone ==
    <<"S", "R", "T", "M">>

\* "sea ice"
SelectionIce ==
    <<"s", "e", "a", " ", "i", "c", "e">>

\* "USGS/SRTMGL1_003 fits"
SelectionIds ==
    <<"U", "S", "G", "S", "/", "S", "R", "T", "M", "G", "L", "1", "_", "0", "0", "3", " ", "f",
      "i", "t", "s">>

\* "<fence>js\nMap\n<fence>"
FencedCode ==
    <<Backtick, Backtick, Backtick, "j", "s", "\n", "M", "a", "p", "\n", Backtick, Backtick,
      Backtick>>

\* "Map"
BareCode ==
    <<"M", "a", "p">>

\* "<fence>\nMap.fix\n<fence>"
FencedFix ==
    <<Backtick, Backtick, Backtick, "\n", "M", "a", "p", ".", "f", "i", "x", "\n", Backtick,
      Backtick, Backtick>>

\* "Done"
SummaryText ==
    <<"D", "o", "n", "e">>

\* ""
EmptyText ==
    <<>>

PlanReplies ==
    {PlanText, EmptyText}

SelectionReplies ==
    {SelectionNames, SelectionNone, SelectionIce}

CodeReplies ==
    {FencedCode, BareCode, EmptyText}

\* replies to the selector agent, which looks for dataset ids in them
IdSelectionReplies ==
    {SelectionIds, SelectionNone}

DebuggerReplies ==
    {FencedFix, BareCode}

SummaryReplies ==
    {SummaryText, EmptyText}

\* ---------------------------------------------------------------------------
\* Feasibility Assessor.

\* calculateRelevance: the score of one snippet for a query, in tenths
\* (title 10, class 8, function 8, 0.5 per content match, 0.3 per example term).
TitleWeight == 100
ApiWeight == 80
ContentWeight == 5
ExampleWeight == 3

calculateRelevance(query, doc) ==
    LET normalizedQuery == ToLowerCase(query)
        queryTerms == LongerThan(Runs(normalizedQuery, WordChars, TRUE), 2)
        contentLower == ToLowerCase(doc.content)
        examplesText == ToLowerCase(doc.examples)
        titleScore ==
            IF Includes(ToLowerCase(doc.title), normalizedQuery) THEN TitleWeight ELSE 0
        classScore ==
            IF doc.apiClass # <<>> /\ Includes(normalizedQuery, ToLowerCase(doc.apiClass))
            THEN ApiWeight ELSE 0
        functionScore ==
            IF doc.apiFunction # <<>> /\ Includes(normalizedQuery, ToLowerCase(doc.apiFunction))
            THEN ApiWeight ELSE 0
        contentScore ==
            SumSeq([k \in 1..Len(queryTerms) |->
                       ContentWeight * CountOccurrences(contentLower, queryTerms[k])])
        exampleScore ==
            IF doc.hasExamples
            THEN SumSeq([k \in 1..Len(queryTerms) |->
                            IF Includes(examplesText, queryTerms[k]) THEN ExampleWeight ELSE 0])
            ELSE 0
    IN  titleScore + classScore + functionScore + contentScore + exampleScore

RECURSIVE PositiveScore(_)
PositiveScore(seq) ==
    IF seq = <<>> THEN <<>>
    ELSE IF Head(seq).score > 0
         THEN <<Head(seq)>> \o PositiveScore(Tail(seq))
         ELSE PositiveScore(Tail(seq))

DocLimit == 5

\* searchDocumentation(query, limit = 5): the indices of the matching snippets,
\* best first.
searchDocumentation(query) ==
    LET scoredDocs == [i \in 1..Len(documentationData) |->
                          [doc |-> i, score |-> calculateRelevance(query, documentationData[i])]]
        top == Slice0(PositiveScore(SortByScoreDesc(scoredDocs)), DocLimit)
    IN  [i \in 1..Len(top) |-> top[i].doc]

SomeKeyword(keywords, text) ==
    \E k \in 1..Len(keywords) : Includes(text, keywords[k])

MinDocs == 2

\* A faulty variant of assessProblem, in which a positive keyword or enough
\* snippets win over a negative keyword. C4's formula must tell it from the
\* original.
assessPositiveFirst(query) ==
    IF query = <<>>
    THEN [feasible |-> FALSE, explanation |-> "no query"]
    ELSE LET lowercasedQuery == ToLowerCase(query)
         IN  IF SomeKeyword(positiveKeywords, lowercasedQuery)
                \/ Len(searchDocumentation(query)) >= MinDocs
             THEN [feasible |-> TRUE, explanation |-> "can be accomplished"]
             ELSE IF SomeKeyword(negativeKeywords, lowercasedQuery)
                  THEN [feasible |-> FALSE, explanation |-> "not suitable"]
                  ELSE [feasible |-> TRUE, explanation |-> "might be accomplishable"]

\* EarthEngineTools.assessProblem: the verdict and which explanation it carries.
assessProblem(query) ==
    IF query = <<>>
    THEN [feasible |-> FALSE, explanation |-> "no query"]
    ELSE LET docs == searchDocumentation(query)
             lowercasedQuery == ToLowerCase(query)
             hasPositiveKeyword == SomeKeyword(positiveKeywords, lowercasedQuery)
             hasNegativeKeyword == SomeKeyword(negativeKeywords, lowercasedQuery)
             hasSufficientDocumentation == Len(docs) >= MinDocs
         IN  IF (hasPositiveKeyword \/ hasSufficientDocumentation) /\ ~hasNegativeKeyword
             THEN [feasible |-> TRUE, explanation |-> "can be accomplished"]
             ELSE IF hasNegativeKeyword
                  THEN [feasible |-> FALSE, explanation |-> "not suitable"]
                  ELSE [feasible |-> TRUE, explanation |-> "might be accomplishable"]

\* ---------------------------------------------------------------------------
\* Dataset Catalog Client.
\* A dataset entry keeps the fields the search reads: id, title (the code takes
\* title, else name, else the empty string), description and tags.

\* getSampleCatalog (src/src/lib/tools/databaseSearch.ts:58-106)
getSampleCatalog ==
    LET \* USGS/SRTMGL1_003
        Sample1 ==
            [id |->
                <<"U", "S", "G", "S", "/", "S", "R", "T", "M", "G", "L", "1", "_", "0", "0", "3">>,
             title |->
                <<"S", "R", "T", "M", " ", "G", "l", "o", "b", "a", "l", " ", "1", " ", "a", "r", "c",
                  " ", "s", "e", "c", "o", "n", "d", " ", "e", "l", "e", "v", "a", "t", "i", "o", "n">>,
             description |->
                <<"S", "h", "u", "t", "t", "l", "e", " ", "R", "a", "d", "a", "r", " ", "T", "o", "p",
                  "o", "g", "r", "a", "p", "h", "y", " ", "M", "i", "s", "s", "i", "o", "n", " ", "(",
                  "S", "R", "T", "M", ")", " ", "d", "i", "g", "i", "t", "a", "l", " ", "e", "l", "e",
                  "v", "a", "t", "i", "o", "n", " ", "d", "a", "t", "a", " ", "i", "s", " ", "a", " ",
                  "w", "o", "r", "l", "d", "w", "i", "d", "e", " ", "e", "l", "e", "v", "a", "t", "i",
                  "o", "n", " ", "d", "a", "t", "a", "s", "e", "t", ".">>,
             tags |->
                <<<<"e", "l", "e", "v", "a", "t", "i", "o", "n">>,
                  <<"t", "o", "p", "o", "g", "r", "a", "p", "h", "y">>,
                  <<"d", "e", "m">>,
                  <<"s", "r", "t", "m">>>>]

        \* MODIS/006/MOD13Q1
        Sample2 ==
            [id |->
                <<"M", "O", "D", "I", "S", "/", "0", "0", "6", "/", "M", "O", "D", "1", "3", "Q", "1">>,
             title |->
                <<"M", "O", "D", "I", "S", " ", "T", "e", "r", "r", "a", " ", "V", "e", "g", "e", "t",
                  "a", "t", "i", "o", "n", " ", "I", "n", "d", "i", "c", "e", "s", " ", "1", "6", "-",
                  "D", "a", "y", " ", "G", "l", "o", "b", "a", "l", " ", "2", "5", "0", "m">>,
             description |->
                <<"V", "e", "g", "e", "t", "a", "t", "i", "o", "n", " ", "i", "n", "d", "i", "c", "e",
                  "s", " ", "d", "e", "s", "i", "g", "n", "e", "d", " ", "t", "o", " ", "p", "r", "o",
                  "v", "i", "d", "e", " ", "c", "o", "n", "s", "i", "s", "t", "e", "n", "t", " ", "s",
                  "p", "a", "t", "i", "a", "l", " ", "a", "n", "d", " ", "t", "e", "m", "p", "o", "r",
                  "a", "l", " ", "c", "o", "m", "p", "a", "r", "i", "s", "o", "n", "s", " ", "o", "f",
                  " ", "v", "e", "g", "e", "t", "a", "t", "i", "o", "n", " ", "c", "o", "n", "d", "i",
                  "t", "i", "o", "n", "s", ".">>,
             tags |->
                <<<<"m", "o", "d", "i", "s">>,
                  <<"v", "e", "g", "e", "t", "a", "t", "i", "o", "n">>,
                  <<"n", "d", "v", "i">>,
                  <<"e", "v", "i">>>>]

        \* COPERNICUS/S2
        Sample3 ==
            [id |->
                <<"C", "O", "P", "E", "R", "N", "I", "C", "U", "S", "/", "S", "2">>,
             title |->
                <<"S", "e", "n", "t", "i", "n", "e", "l", "-", "2", " ", "M", "S", "I", ":", " ", "M",
                  "u", "l", "t", "i", "S", "p", "e", "c", "t", "r", "a", "l", " ", "I", "n", "s", "t",
                  "r", "u", "m", "e", "n", "t", ",", " ", "L", "e", "v", "e", "l", "-", "1", "C">>,
             description |->
                <<"S", "e", "n", "t", "i", "n", "e", "l", "-", "2", " ", "i", "s", " ", "a", " ", "w",
                  "i", "d", "e", "-", "s", "w", "a", "t", "h", ",", " ", "h", "i", "g", "h", "-", "r",
                  "e", "s", "o", "l", "u", "t", "i", "o", "n", ",", " ", "m", "u", "l", "t", "i", "-",
                  "s", "p", "e", "c", "t", "r", "a", "l", " ", "i", "m", "a", "g", "i", "n", "g", " ",
                  "m", "i", "s", "s", "i", "o", "n", " ", "s", "u", "p", "p", "o", "r", "t", "i", "n",
                  "g", " ", "C", "o", "p", "e", "r", "n", "i", "c", "u", "s", " ", "L", "a", "n", "d",
                  " ", "M", "o", "n", "i", "t", "o", "r", "i", "n", "g", " ", "s", "t", "u", "d", "i",
                  "e", "s", ".">>,
             tags |->
                <<<<"s", "e", "n", "t", "i", "n", "e", "l">>,
                  <<"s", "a", "t", "e", "l", "l", "i", "t", "e">>,
                  <<"e", "s", "a">>,
                  <<"c", "o", "p", "e", "r", "n", "i", "c", "u", "s">>>>]

        \* LANDSAT/LC08/C01/T1_SR
        Sample4 ==
            [id |->
                <<"L", "A", "N", "D", "S", "A", "T", "/", "L", "C", "0", "8", "/", "C", "0", "1", "/",
                  "T", "1", "_", "S", "R">>,
             title |->
                <<"U", "S", "G", "S", " ", "L", "a", "n", "d", "s", "a", "t", " ", "8", " ", "S", "u",
                  "r", "f", "a", "c", "e", " ", "R", "e", "f", "l", "e", "c", "t", "a", "n", "c", "e",
                  " ", "T", "i", "e", "r", " ", "1">>,
             description |->
                <<"L", "a", "n", "d", "s", "a", "t", " ", "8", " ", "S", "R", " ", "i", "s", " ", "a",
                  "t", "m", "o", "s", "p", "h", "e", "r", "i", "c", "a", "l", "l", "y", " ", "c", "o",
                  "r", "r", "e", "c", "t", "e", "d", " ", "s", "u", "r", "f", "a", "c", "e", " ", "r",
                  "e", "f", "l", "e", "c", "t", "a", "n", "c", "e", " ", "f", "r", "o", "m", " ", "t",
                  "h", "e", " ", "L", "a", "n", "d", "s", "a", "t", " ", "8", " ", "O", "L", "I", "/",
                  "T", "I", "R", "S", " ", "s", "e", "n", "s", "o", "r", "s", ".">>,
             tags |->
                <<<<"l", "a", "n", "d", "s", "a", "t">>,
                  <<"u", "s", "g", "s">>,
                  <<"s", "r">>,
                  <<"s", "u", "r", "f", "a", "c", "e", " ", "r", "e", "f", "l", "e", "c", "t", "a", "n", "c", "e">>>>]

        \* NASA/GPM_L3/IMERG_V06
        Sample5 ==
            [id |->
                <<"N", "A", "S", "A", "/", "G", "P", "M", "_", "L", "3", "/", "I", "M", "E", "R", "G",
                  "_", "V", "0", "6">>,
             title |->
                <<"G", "P", "M", ":", " ", "G", "l", "o", "b", "a", "l", " ", "P", "r", "e", "c", "i",
                  "p", "i", "t", "a", "t", "i", "o", "n", " ", "M", "e", "a", "s", "u", "r", "e", "m",
                  "e", "n", "t", " ", "(", "G", "P", "M", ")", " ", "v", "6">>,
             description |->
                <<"G", "l", "o", "b", "a", "l", " ", "P", "r", "e", "c", "i", "p", "i", "t", "a", "t",
                  "i", "o", "n", " ", "M", "e", "a", "s", "u", "r", "e", "m", "e", "n", "t", " ", "(",
                  "G", "P", "M", ")", " ", "I", "M", "E", "R", "G", " ", "p", "r", "e", "c", "i", "p",
                  "i", "t", "a", "t", "i", "o", "n", " ", "d", "a", "t", "a", ".">>,
             tags |->
                <<<<"p", "r", "e", "c", "i", "p", "i", "t", "a", "t", "i", "o", "n">>,
                  <<"r", "a", "i", "n", "f", "a", "l", "l">>,
                  <<"g", "p", "m">>,
                  <<"n", "a", "s", "a">>>>]
    IN  <<Sample1, Sample2, Sample3, Sample4, Sample5>>

\* Bodies the catalog URL may answer with. The catalog is external data: two
\* small well-formed snapshots, the empty snapshot, and a body that is not an
\* array (malformed JSON reaches the code as a string).
RemoteCatalogA ==
    LET \* USGS/SRTMGL1_003 (remote snapshot entry)
        Remote1 ==
            [id |->
                <<"U", "S", "G", "S", "/", "S", "R", "T", "M", "G", "L", "1", "_", "0", "0", "3">>,
             title |->
                <<"S", "R", "T", "M", " ", "e", "l", "e", "v", "a", "t", "i", "o", "n">>,
             description |->
                <<>>,
             tags |->
                <<<<"d", "e", "m">>>>]

        \* NOAA/NIGHT (remote snapshot entry)
        Remote2 ==
            [id |->
                <<"N", "O", "A", "A", "/", "N", "I", "G", "H", "T">>,
             title |->
                <<"N", "i", "g", "h", "t", "t", "i", "m", "e", " ", "L", "i", "g", "h", "t", "s">>,
             description |->
                <<"u", "r", "b", "a", "n", " ", "l", "i", "g", "h", "t", "s">>,
             tags |->
                <<>>]

        \* COPERNICUS/S2 (remote snapshot entry)
        Remote3 ==
            [id |->
                <<"C", "O", "P", "E", "R", "N", "I", "C", "U", "S", "/", "S", "2">>,
             title |->
                <<"S", "e", "n", "t", "i", "n", "e", "l", "-", "2", " ", "M", "S", "I">>,
             description |->
                <<"e", "l", "e", "v", "a", "t", "i", "o", "n", " ", "f", "r", "e", "e">>,
             tags |->
                <<<<"s", "e", "n", "t", "i", "n", "e", "l">>>>]
    IN  <<Remote1, Remote2, Remote3>>

RemoteCatalogB ==
    <<RemoteCatalogA[2]>>

\* The catalog cache (cachedCatalog) and the value fetchCatalog hands to the
\* search: null, an array of entries, or a body that is not an array.
NullCatalog ==
    [kind |-> "null", entries |-> <<>>]

ArrayCatalog(entries) ==
    [kind |-> "array", entries |-> entries]

MalformedCatalog ==
    [kind |-> "malformed", entries |-> <<>>]

NetworkError ==
    [kind |-> "network error", entries |-> <<>>]

\* What one axios.get(CATALOG_URL) can end with.
FetchOutcomes ==
    {ArrayCatalog(RemoteCatalogA), ArrayCatalog(RemoteCatalogB), ArrayCatalog(<<>>),
     MalformedCatalog, NetworkError}

\* fetchCatalog: the catalog it returns and the cache it leaves, for a given
\* outcome of the network request (used only when nothing is cached).
fetchCatalog(cache, outcome) ==
    IF cache.kind # "null"
    THEN [catalog |-> cache, cache |-> cache, fetched |-> FALSE]
    ELSE IF outcome.kind = "network error"
         THEN [catalog |-> ArrayCatalog(getSampleCatalog), cache |-> cache, fetched |-> TRUE]
         ELSE [catalog |-> outcome, cache |-> outcome, fetched |-> TRUE]

\* Array.prototype.join
RECURSIVE JoinWith(_, _)
JoinWith(seqs, sep) ==
    IF seqs = <<>> THEN <<>>
    ELSE IF Len(seqs) = 1 THEN Head(seqs)
         ELSE Head(seqs) \o sep \o JoinWith(Tail(seqs), sep)

\* The searchable text of a dataset: id, title, description and the tags joined
\* with blanks, separated by blanks and lower-cased.
datasetText(dataset) ==
    ToLowerCase(dataset.id \o <<" ">> \o dataset.title \o <<" ">> \o dataset.description
                \o <<" ">> \o JoinWith(dataset.tags, <<" ">>))

\* query.toLowerCase().split(/\s+/).filter(word => word.length > 2)
searchKeywords(query) ==
    LongerThan(Runs(ToLowerCase(query), WhiteSpace, FALSE), 2)

\* keywords.some(keyword => text.includes(keyword))
matchesSomeKeyword(text, keywords) ==
    \E k \in 1..Len(keywords) : Includes(text, keywords[k])

\* catalog.filter(...): the entries whose text holds one of the keywords
RECURSIVE MatchingDatasets(_, _)
MatchingDatasets(entries, keywords) ==
    IF entries = <<>> THEN <<>>
    ELSE IF matchesSomeKeyword(datasetText(Head(entries)), keywords)
         THEN <<Head(entries)>> \o MatchingDatasets(Tail(entries), keywords)
         ELSE MatchingDatasets(Tail(entries), keywords)

\* the number of keyword occurrences in the text of a dataset
RECURSIVE occurrences(_, _)
occurrences(text, keywords) ==
    IF keywords = <<>> THEN 0
    ELSE CountOccurrences(text, Head(keywords)) + occurrences(text, Tail(keywords))

RECURSIVE scoreDatasets(_, _)
scoreDatasets(datasets, keywords) ==
    IF datasets = <<>> THEN <<>>
    ELSE <<[dataset |-> Head(datasets), score |-> occurrences(datasetText(Head(datasets)), keywords)]>>
         \o scoreDatasets(Tail(datasets), keywords)

RECURSIVE datasetsOf(_)
datasetsOf(scored) ==
    IF scored = <<>> THEN <<>> ELSE <<Head(scored).dataset>> \o datasetsOf(Tail(scored))

SearchLimit == 20

\* The body of the search: filter by keyword, sort by descending number of
\* keyword occurrences, keep the first twenty.
rankedMatches(entries, keywords) ==
    datasetsOf(Slice0(SortByScoreDesc(scoreDatasets(MatchingDatasets(entries, keywords),
                                                    keywords)),
                      SearchLimit))

\* searchEarthEngineDatabase, given the catalog fetchCatalog returned. A catalog
\* that is not an array makes .filter throw, and the catch returns the sample.
searchEarthEngineDatabase(query, catalog) ==
    IF catalog.kind = "malformed"
    THEN getSampleCatalog
    ELSE rankedMatches(catalog.entries, searchKeywords(query))

\* ---------------------------------------------------------------------------
\* Helpers of the minimal workflow (src/src/lib/agents/index.ts:295-363).

Landsat ==
    <<"L", "a", "n", "d", "s", "a", "t">>

MODIS ==
    <<"M", "O", "D", "I", "S">>

Sentinel ==
    <<"S", "e", "n", "t", "i", "n", "e", "l">>

DatasetNames ==
    {Landsat, MODIS, Sentinel}

\* the character class [a-zA-Z0-9\s-]
NameTailChars ==
    Range(UpperChars) \cup Range(LowerChars) \cup DigitChars \cup WhiteSpace \cup {"-"}

\* end of the longest run of NameTailChars starting at position p (p - 1 if none)
RECURSIVE TailEnd(_, _)
TailEnd(line, p) ==
    IF p <= Len(line) /\ line[p] \in NameTailChars THEN TailEnd(line, p + 1) ELSE p - 1

\* line.match(/\b(Landsat|MODIS|Sentinel)[a-zA-Z0-9\s-]*/g) from position from on
RECURSIVE NameMatches(_, _)
NameMatches(line, from) ==
    LET starts == {i \in from..Len(line) :
                      /\ i = 1 \/ line[i - 1] \notin WordChars
                      /\ \E n \in DatasetNames : MatchAt(line, n, i)}
    IN  IF starts = {} THEN <<>>
        ELSE LET i == CHOOSE a \in starts : \A b \in starts : a <= b
                 n == CHOOSE m \in DatasetNames : MatchAt(line, m, i)
                 e == TailEnd(line, i + Len(n))
             IN  <<SubSeq(line, i, e)>> \o NameMatches(line, e + 1)

topicKeywords ==
    <<
      <<"e", "l", "e", "v", "a", "t", "i", "o", "n">>,
      <<"l", "a", "n", "d", " ", "c", "o", "v", "e", "r">>,
      <<"p", "r", "e", "c", "i", "p", "i", "t", "a", "t", "i", "o", "n">>,
      <<"t", "e", "m", "p", "e", "r", "a", "t", "u", "r", "e">>,
      <<"v", "e", "g", "e", "t", "a", "t", "i", "o", "n">>,
      <<"f", "o", "r", "e", "s", "t">>,
      <<"w", "a", "t", "e", "r">>,
      <<"s", "n", "o", "w">>,
      <<"i", "c", "e">>,
      <<"u", "r", "b", "a", "n">>,
      <<"p", "o", "p", "u", "l", "a", "t", "i", "o", "n">>
    >>

RECURSIVE KeywordsIn(_, _)
KeywordsIn(lowerLine, k) ==
    IF k > Len(topicKeywords) THEN <<>>
    ELSE IF Includes(lowerLine, topicKeywords[k])
         THEN <<topicKeywords[k]>> \o KeywordsIn(lowerLine, k + 1)
         ELSE KeywordsIn(lowerLine, k + 1)

lineTerms(line) ==
    (IF \E n \in DatasetNames : Includes(line, n) THEN NameMatches(line, 1) ELSE <<>>)
    \o KeywordsIn(ToLowerCase(line), 1)

RECURSIVE TermsOfLines(_)
TermsOfLines(lines) ==
    IF lines = <<>> THEN <<>> ELSE lineTerms(Head(lines)) \o TermsOfLines(Tail(lines))

\* [...new Set(items)]: the first occurrence of each value, in order
RECURSIVE Distinct(_, _)
Distinct(items, seen) ==
    IF items = <<>> THEN <<>>
    ELSE IF Head(items) \in seen
         THEN Distinct(Tail(items), seen)
         ELSE <<Head(items)>> \o Distinct(Tail(items), seen \cup {Head(items)})

defaultTerms ==
    << Landsat, MODIS,
       <<"e", "l", "e", "v", "a", "t", "i", "o", "n">>,
       <<"l", "a", "n", "d", " ", "c", "o", "v", "e", "r">> >>

\* extractSearchTerms: the text is split at newlines; empty lines contribute
\* no term
extractSearchTerms(text) ==
    LET terms == TermsOfLines(Runs(text, {"\n"}, FALSE))
    IN  Distinct(IF terms = <<>> THEN defaultTerms ELSE terms, {})

\* dataset.id: the id of a dataset object in a sequence of one element, and
\* the empty sequence (undefined) for an object that has no such property.
idOf(dataset) ==
    IF "id" \in DOMAIN dataset THEN <<dataset.id>> ELSE <<>>

\* removeDuplicateDatasets: keeps the first dataset of every value of dataset.id
RECURSIVE removeDuplicates(_, _)
removeDuplicates(datasets, uniqueIds) ==
    IF datasets = <<>> THEN <<>>
    ELSE IF idOf(Head(datasets)) \in uniqueIds
         THEN removeDuplicates(Tail(datasets), uniqueIds)
         ELSE <<Head(datasets)>>
              \o removeDuplicates(Tail(datasets), uniqueIds \cup {idOf(Head(datasets))})

removeDuplicateDatasets(datasets) ==
    removeDuplicates(datasets, {})

MaxSelected == 5

Fence ==
    <<Backtick, Backtick, Backtick>>

RECURSIVE SkipSpace(_, _)
SkipSpace(text, p) ==
    IF p <= Len(text) /\ text[p] \in WhiteSpace THEN SkipSpace(text, p + 1) ELSE p

\* The match of the code-fence pattern (fence, optional tag javascript or js,
\* white space, lazy group, fence) against text: whether it matches and the
\* captured group. The match starts at the first fence; the optional tag and
\* the white space after it are consumed greedily; the group ends before the
\* next fence.
codeBlockMatch(text) ==
    LET TagJavascript == <<"j", "a", "v", "a", "s", "c", "r", "i", "p", "t">>
        TagJs == <<"j", "s">>
        open == IndexOfFrom(text, Fence, 1)
        afterFence == open + Len(Fence)
        afterTag == IF MatchAt(text, TagJavascript, afterFence) THEN afterFence + Len(TagJavascript)
                    ELSE IF MatchAt(text, TagJs, afterFence) THEN afterFence + Len(TagJs)
                    ELSE afterFence
        start == SkipSpace(text, afterTag)
        close == IF open = 0 THEN 0 ELSE IndexOfFrom(text, Fence, start)
    IN  IF open = 0 \/ close = 0
        THEN [matched |-> FALSE, group |-> <<>>]
        ELSE [matched |-> TRUE, group |-> SubSeq(text, start, close - 1)]

\* extractCodeBlock of index.ts: the test (match && match[1]) is false for an
\* empty group
extractCodeBlock(text) ==
    LET match == codeBlockMatch(text)
    IN  IF match.matched /\ match.group # <<>> THEN Trim(match.group) ELSE text

\* ---------------------------------------------------------------------------
\* The code strings a terminal response carries when no code was generated.

\* "// No code was generated (invalid input)"
NoCodeInvalidInput ==
    <<"/", "/", " ", "N", "o", " ", "c", "o", "d", "e", " ", "w", "a", "s", " ", "g", "e", "n",
      "e", "r", "a", "t", "e", "d", " ", "(", "i", "n", "v", "a", "l", "i", "d", " ", "i", "n",
      "p", "u", "t", ")">>

\* "// No code was generated (empty input)"
NoCodeEmptyInput ==
    <<"/", "/", " ", "N", "o", " ", "c", "o", "d", "e", " ", "w", "a", "s", " ", "g", "e", "n",
      "e", "r", "a", "t", "e", "d", " ", "(", "e", "m", "p", "t", "y", " ", "i", "n", "p", "u",
      "t", ")">>

\* "// Missing API key"
MissingApiKeyCode ==
    <<"/", "/", " ", "M", "i", "s", "s", "i", "n", "g", " ", "A", "P", "I", " ", "k", "e", "y">>

\* "// Task not feasible with Earth Engine"
NotFeasibleCode ==
    <<"/", "/", " ", "T", "a", "s", "k", " ", "n", "o", "t", " ", "f", "e", "a", "s", "i", "b",
      "l", "e", " ", "w", "i", "t", "h", " ", "E", "a", "r", "t", "h", " ", "E", "n", "g", "i",
      "n", "e">>

\* "// Error in planning stage"
PlanningErrorCode ==
    <<"/", "/", " ", "E", "r", "r", "o", "r", " ", "i", "n", " ", "p", "l", "a", "n", "n", "i",
      "n", "g", " ", "s", "t", "a", "g", "e">>

\* "// Error in dataset selection stage"
DatasetSelectionErrorCode ==
    <<"/", "/", " ", "E", "r", "r", "o", "r", " ", "i", "n", " ", "d", "a", "t", "a", "s", "e",
      "t", " ", "s", "e", "l", "e", "c", "t", "i", "o", "n", " ", "s", "t", "a", "g", "e">>

\* "// Error in code generation"
CodeGenerationErrorCode ==
    <<"/", "/", " ", "E", "r", "r", "o", "r", " ", "i", "n", " ", "c", "o", "d", "e", " ", "g",
      "e", "n", "e", "r", "a", "t", "i", "o", "n">>

\* "// No code was generated"
NoCodeGenerated ==
    <<"/", "/", " ", "N", "o", " ", "c", "o", "d", "e", " ", "w", "a", "s", " ", "g", "e", "n",
      "e", "r", "a", "t", "e", "d">>

\* "// Error generating code"
ErrorGeneratingCode ==
    <<"/", "/", " ", "E", "r", "r", "o", "r", " ", "g", "e", "n", "e", "r", "a", "t", "i", "n",
      "g", " ", "c", "o", "d", "e">>

\* ---------------------------------------------------------------------------
\* The values of the pure stages on the bounded inputs, computed once. The
\* actions look the values up instead of computing them anew in every state.

\* EarthEngineTools.assessProblem(query) for every request.
assessmentOf ==
    [query \in Inputs |-> assessProblem(query)]

\* extractSearchTerms(text) for every dataset completion.
searchTermsOf ==
    [text \in SelectionReplies |-> extractSearchTerms(text)]

\* EarthEngineTools.databaseSearch(query) for every catalog fetchCatalog can
\* return and every query the stages search with: the search terms of the
\* minimal workflow and the requests themselves (the selector agent).
databaseSearch ==
    LET Catalogs == {ArrayCatalog(getSampleCatalog)} \cup (FetchOutcomes \ {NetworkError})
        Queries == Inputs \cup UNION {Range(searchTermsOf[text]) : text \in SelectionReplies}
    IN  [catalog \in Catalogs |->
            [query \in Queries |-> searchEarthEngineDatabase(query, catalog)]]

\* ---------------------------------------------------------------------------
\* Pipeline state.

\* An optional value: <<>> is undefined, <<v>> is the value v.
None ==
    <<>>

Some(v) ==
    <<v>>

\* JavaScript truthiness of an optional string: defined and not empty.
Truthy(text) ==
    text # None /\ text[1] # <<>>

\* a || fallback, for an optional string a
OrElse(text, fallback) ==
    IF Truthy(text) THEN text[1] ELSE fallback

VARIABLES
    workflow,             \* the orchestrator revision in use: "minimal" or "agents"
    apiKey,               \* whether an API key is stored (what getApiKey resolves with)
    system,               \* the function initializeAgentSystem returned
    pc,                   \* the stage the current run is about to enter
    input,                \* the request of the current run (optional)
    state,                \* the AgentState of the current run
    assessmentResult,     \* what assessProblem returned in this run (optional)
    datasetSelectionText, \* the dataset completion, while the search loop runs
    searchTerms,          \* the search terms the loop has still to look up
    allDatasets,          \* the datasets the loop has collected
    cachedCatalog,        \* the catalog cache of databaseSearch.ts
    consoleCheckResult,   \* what checkConsole returned in this run (optional)
    result,               \* what the call of the agent system settled with (optional)
    settled,              \* how many times the call has settled
    calls,                \* the stage operations invoked in this run, in order
    runs,                 \* the number of calls of the agent system so far
    searches,             \* the calls of searchEarthEngineDatabase, one per caller
    timedSearch,          \* the call of the databaseSearch that takes a timeframe
    completion,           \* a completion reply handed to the code extraction
    extraction,           \* what the code extraction made of the reply (optional)
    chatInput,            \* the text in the input field of the chat
    isLoading,            \* whether the chat shows that the agent is thinking
    messages,             \* the messages of the chat, in order
    inFlight,             \* the calls of the agent system that have not settled
    timers,               \* the pending timers of the chat
    bridgeCall,           \* a call of a Bridge tool wrapper made on its own
    page                  \* the content script: the message it is handling

\* The variables of a pipeline run, and those of the tools when they are called
\* on their own.
pipelineVars ==
    <<workflow, apiKey, system, pc, input, state, assessmentResult, datasetSelectionText,
      searchTerms, allDatasets, cachedCatalog, consoleCheckResult, result, settled, calls,
      runs>>

chatVars ==
    <<chatInput, isLoading, messages, inFlight, timers>>

bridgeVars ==
    <<bridgeCall, page>>

toolVars ==
    <<searches, timedSearch, completion, extraction, chatVars, bridgeVars>>

vars ==
    <<pipelineVars, toolVars>>

\* The number of requests submitted one after the other.
MaxRuns == 2

\* AgentState without its input: every field undefined.
NoState ==
    [taskPlan |-> None, selectedDatabases |-> None, databaseSelectionText |-> None,
     generatedCode |-> None, errors |-> None, debugLog |-> None,
     inspectionResults |-> None, response |-> None]

\* A response text: which message it is, the explanation or error message
\* interpolated into it, and the text of a summary.
Response(kind, detail) ==
    [kind |-> kind, detail |-> detail, text |-> <<>>]

Summary(text) ==
    [kind |-> "summary", detail |-> "", text |-> text]

\* JavaScript truthiness of an optional response string.
ResponseTruthy(response) ==
    response # None /\ (response[1].kind = "summary" => response[1].text # <<>>)

\* An AgentResponse the call resolves with, and a rejection of the call.
Resolved(response, code, debugLog) ==
    [outcome |-> "resolved", response |-> Some(response), code |-> code,
     debugLog |-> debugLog]

Rejected(message) ==
    [outcome |-> "rejected", response |-> None, code |-> None,
     debugLog |-> Some(<<message>>)]

\* One invocation of a stage operation and whether it succeeded.
Call(op, ok) ==
    [op |-> op, ok |-> ok]

\* What one call of the completion endpoint can end with: an error, or a text.
Failure ==
    [ok |-> FALSE, content |-> <<>>]

Reply(text) ==
    [ok |-> TRUE, content |-> text]

Completions(replies) ==
    {Failure} \cup {Reply(text) : text \in replies}

ApiErrorMessage ==
    "OpenAI API error"

\* The call settles with r: the run is over.
Return(r) ==
    /\ result' = Some(r)
    /\ settled' = settled + 1
    /\ pc' = "done"

RunStart ==
    /\ pc = "idle"
    /\ input = None
    /\ state = NoState
    /\ assessmentResult = None
    /\ datasetSelectionText = None
    /\ searchTerms = <<>>
    /\ allDatasets = <<>>
    /\ consoleCheckResult = None
    /\ result = None
    /\ settled = 0
    /\ calls = <<>>

\* The callers that search the catalog at the same time.
MaxSearchers == 2

Searchers ==
    1..MaxSearchers

\* A call of searchEarthEngineDatabase that has not been made.
NoSearch ==
    [pc |-> "idle", term |-> <<>>, cached |-> FALSE, fetched |-> FALSE, result |-> <<>>]

\* The timeframe of a search: none, or an object with an optional start and
\* end date.
NoTimeframe ==
    [given |-> FALSE, start |-> <<>>, end |-> <<>>]

Timeframe(start, end) ==
    [given |-> TRUE, start |-> start, end |-> end]

\* A call of the databaseSearch that takes a timeframe, before it is made.
NoTimedSearch ==
    [pc |-> "idle", term |-> <<>>, timeframe |-> NoTimeframe, fetch |-> "none",
     source |-> "none", results |-> <<>>]

\* A Bridge tool wrapper that has not been called.
NoBridgeCall ==
    [pc |-> "idle", tool |-> "none", sent |-> "none", outcome |-> "pending", success |-> FALSE]

\* The content script with no message to handle.
NoPage ==
    [pc |-> "idle", type |-> "none", responses |-> 0, success |-> FALSE,
     currentAttempt |-> 0, polls |-> 0, isReady |-> "pending", runButton |-> FALSE]

\* No tool is in use on its own.
ToolsIdle ==
    /\ searches = [caller \in Searchers |-> NoSearch]
    /\ timedSearch = NoTimedSearch
    /\ completion = <<>>
    /\ extraction = None
    /\ chatInput = <<>>
    /\ isLoading = FALSE
    /\ messages = <<>>
    /\ inFlight = 0
    /\ timers = 0
    /\ bridgeCall = NoBridgeCall
    /\ page = NoPage

InitCommon ==
    /\ ToolsIdle
    /\ apiKey \in BOOLEAN
    /\ system = "uninitialized"
    /\ cachedCatalog = NullCatalog
    /\ runs = 0
    /\ RunStart

\* ---------------------------------------------------------------------------
\* The minimal workflow (src/src/lib/agents/index.ts).

\* noApiKeyFallback
noApiKeyFallback ==
    Resolved(Response("missing api key", ""), Some(MissingApiKeyCode),
             Some(<<"No API key found">>))

\* The wrapper initializeAgentSystem returns: its answer to a request it refuses.
invalidInputResponse ==
    Resolved(Response("invalid query", ""), Some(NoCodeInvalidInput),
             Some(<<"Invalid input type provided">>))

\* processingFunction: its answer to a request that is the empty string.
emptyInputResponse ==
    Resolved(Response("invalid query", ""), Some(NoCodeEmptyInput), None)

\* !userInput, for a request that is a string
IsFalsy(userInput) ==
    userInput = <<>>

notFeasibleResponse(assessment) ==
    Resolved(Response("not the right tool", assessment.explanation),
             Some(NotFeasibleCode), None)

\* The catch blocks of the four steps.
planningStageError(message) ==
    Resolved(Response("planning error", message), Some(PlanningErrorCode), None)

datasetStageError(message) ==
    Resolved(Response("dataset selection error", message),
             Some(DatasetSelectionErrorCode), None)

\* A faulty variant of the catch block of step 3, which lets the failure escape
\* as a rejection of the call. C1's formula must tell it from the original.
uncaughtStageError(message) ==
    Rejected(message)

codeGenerationStageError(message) ==
    Resolved(Response("code generation error", message),
             Some(CodeGenerationErrorCode), None)

responseStageFallback(generatedCode, message) ==
    Resolved(Response("generated code without summary", ""),
             Some(OrElse(generatedCode, NoCodeGenerated)), Some(<<message>>))

finalResponse(summary, generatedCode) ==
    Resolved(Summary(summary), generatedCode, Some(<<"Task completed successfully">>))

\* initializeAgentSystem: reads the API key once and returns the wrapper around
\* processingFunction, or noApiKeyFallback when no key is stored.
InitializeAgentSystem ==
    /\ workflow = "minimal"
    /\ system = "uninitialized"
    /\ system' = IF apiKey THEN "processingFunction" ELSE "noApiKeyFallback"
    /\ UNCHANGED <<toolVars, workflow, apiKey, pc, input, state, assessmentResult,
                   datasetSelectionText, searchTerms, allDatasets, cachedCatalog,
                   consoleCheckResult, result, settled, calls, runs>>

\* One call of the function initializeAgentSystem returned, up to the first
\* await: the wrapper's check, then processingFunction's own check.
Submit(userInput) ==
    /\ workflow = "minimal"
    /\ system \in {"processingFunction", "noApiKeyFallback"}
    /\ pc = "idle"
    /\ input' = Some(userInput)
    /\ runs' = runs + 1
    /\ IF system = "noApiKeyFallback"
       THEN Return(noApiKeyFallback)
       ELSE IF IsFalsy(userInput)
            THEN Return(invalidInputResponse)
            ELSE IF IsFalsy(userInput)
                 THEN Return(emptyInputResponse)
                 ELSE /\ pc' = "assess"
                      /\ UNCHANGED <<result, settled>>
    /\ UNCHANGED <<toolVars, workflow, apiKey, system, state, assessmentResult, datasetSelectionText,
                   searchTerms, allDatasets, cachedCatalog, consoleCheckResult, calls>>

\* A faulty variant of the assessment step, which goes on to the plan whatever
\* the verdict. C3's formula must tell it from the original.
AssessFeasibilityUngated ==
    /\ pc = "assess"
    /\ assessmentResult' = Some(assessmentOf[input[1]])
    /\ calls' = Append(calls, Call("assessProblem", TRUE))
    /\ pc' = "plan"
    /\ UNCHANGED <<toolVars, workflow, apiKey, system, input, state, datasetSelectionText, searchTerms,
                   allDatasets, cachedCatalog, consoleCheckResult, result, settled, runs>>

\* STEP 1, first half: the feasibility assessment.
AssessFeasibility ==
    /\ pc = "assess"
    /\ \E assessment \in {assessmentOf[input[1]]} :
           /\ assessmentResult' = Some(assessment)
           /\ calls' = Append(calls, Call("assessProblem", TRUE))
           /\ IF ~assessment.feasible
              THEN Return(notFeasibleResponse(assessment))
              ELSE /\ pc' = "plan"
                   /\ UNCHANGED <<result, settled>>
    /\ UNCHANGED <<toolVars, workflow, apiKey, system, input, state, datasetSelectionText,
                   searchTerms, allDatasets, cachedCatalog, consoleCheckResult, runs>>

\* A faulty variant of the plan step, which goes on to the dataset selection
\* after a failed completion. C6's formula must tell it from the original.
PlanCompletionContinues(outcome) ==
    /\ pc = "plan"
    /\ calls' = Append(calls, Call("plan completion", outcome.ok))
    /\ state' = [state EXCEPT !.taskPlan = Some(outcome.content)]
    /\ pc' = "datasets"
    /\ UNCHANGED <<toolVars, workflow, apiKey, system, input, assessmentResult, datasetSelectionText,
                   searchTerms, allDatasets, cachedCatalog, consoleCheckResult, result,
                   settled, runs>>

\* A faulty variant of the plan step, which sends the completion request once
\* more after a failure. C25's formula must tell it from the original.
PlanCompletionRetries(outcome) ==
    /\ pc = "plan"
    /\ calls' = Append(calls, Call("plan completion", outcome.ok))
    /\ IF ~outcome.ok
       THEN IF Call("plan completion", FALSE) \in Range(calls)
            THEN /\ Return(planningStageError(ApiErrorMessage))
                 /\ UNCHANGED state
            ELSE UNCHANGED <<pc, state, result, settled>>
       ELSE /\ state' = [state EXCEPT !.taskPlan = Some(outcome.content)]
            /\ pc' = "datasets"
            /\ UNCHANGED <<result, settled>>
    /\ UNCHANGED <<toolVars, workflow, apiKey, system, input, assessmentResult, datasetSelectionText,
                   searchTerms, allDatasets, cachedCatalog, consoleCheckResult, runs>>

\* STEP 1, second half: the plan completion.
PlanCompletion(outcome) ==
    /\ pc = "plan"
    /\ calls' = Append(calls, Call("plan completion", outcome.ok))
    /\ IF ~outcome.ok
       THEN /\ Return(planningStageError(ApiErrorMessage))
            /\ UNCHANGED state
       ELSE /\ state' = [state EXCEPT !.taskPlan = Some(outcome.content)]
            /\ pc' = "datasets"
            /\ UNCHANGED <<result, settled>>
    /\ UNCHANGED <<toolVars, workflow, apiKey, system, input, assessmentResult, datasetSelectionText,
                   searchTerms, allDatasets, cachedCatalog, consoleCheckResult, runs>>

\* STEP 2, up to the search loop: the dataset completion and the search terms.
DatasetCompletion(outcome) ==
    /\ pc = "datasets"
    /\ IF ~Truthy(state.taskPlan)
       THEN /\ Return(datasetStageError("No task plan available"))
            /\ UNCHANGED <<calls, datasetSelectionText, searchTerms>>
       ELSE /\ calls' = Append(calls, Call("dataset completion", outcome.ok))
            /\ IF ~outcome.ok
               THEN /\ Return(datasetStageError(ApiErrorMessage))
                    /\ UNCHANGED <<datasetSelectionText, searchTerms>>
               ELSE /\ datasetSelectionText' = Some(outcome.content)
                    /\ searchTerms' = searchTermsOf[outcome.content]
                    /\ pc' = "search"
                    /\ UNCHANGED <<result, settled>>
    /\ UNCHANGED <<toolVars, workflow, apiKey, system, input, state, assessmentResult, allDatasets,
                   cachedCatalog, consoleCheckResult, runs>>

\* STEP 2, one turn of the search loop; the last turn removes the duplicates,
\* keeps the first five datasets and stores them in the state.
DatabaseSearch(outcome) ==
    /\ pc = "search"
    /\ searchTerms # <<>>
    /\ LET fetched == fetchCatalog(cachedCatalog, outcome)
           foundDatasets == databaseSearch[fetched.catalog][Head(searchTerms)]
           all == allDatasets \o foundDatasets
           request == IF fetched.fetched
                      THEN <<Call("catalog request", outcome.kind # "network error")>>
                      ELSE <<>>
       IN  /\ cachedCatalog' = fetched.cache
           /\ calls' = calls \o <<Call("databaseSearch", TRUE)>> \o request
           /\ searchTerms' = Tail(searchTerms)
           /\ IF Tail(searchTerms) # <<>>
              THEN /\ allDatasets' = all
                   /\ UNCHANGED <<state, datasetSelectionText, pc>>
              ELSE /\ allDatasets' = <<>>
                   /\ datasetSelectionText' = None
                   /\ state' = [state EXCEPT
                          !.selectedDatabases =
                              Some(Slice0(removeDuplicateDatasets(all), MaxSelected)),
                          !.databaseSelectionText = datasetSelectionText]
                   /\ pc' = "code"
    /\ UNCHANGED <<toolVars, workflow, apiKey, system, input, assessmentResult, consoleCheckResult,
                   result, settled, runs>>

\* STEP 3: the code completion. An array, empty or not, passes the guard.
CodeCompletion(outcome) ==
    /\ pc = "code"
    /\ IF ~Truthy(state.taskPlan) \/ state.selectedDatabases = None
       THEN /\ Return(codeGenerationStageError("Missing task plan or datasets"))
            /\ UNCHANGED <<calls, state>>
       ELSE /\ calls' = Append(calls, Call("code completion", outcome.ok))
            /\ IF ~outcome.ok
               THEN /\ Return(codeGenerationStageError(ApiErrorMessage))
                    /\ UNCHANGED state
               ELSE /\ state' = [state EXCEPT
                           !.generatedCode = Some(extractCodeBlock(outcome.content))]
                    /\ pc' = "summary"
                    /\ UNCHANGED <<result, settled>>
    /\ UNCHANGED <<toolVars, workflow, apiKey, system, input, assessmentResult, datasetSelectionText,
                   searchTerms, allDatasets, cachedCatalog, consoleCheckResult, runs>>

\* STEP 4: the summary completion and the final response.
SummaryCompletion(outcome) ==
    /\ pc = "summary"
    /\ IF ~Truthy(state.generatedCode)
       THEN /\ Return(responseStageFallback(state.generatedCode, "No code was generated"))
            /\ UNCHANGED calls
       ELSE /\ calls' = Append(calls, Call("summary completion", outcome.ok))
            /\ IF ~outcome.ok
               THEN Return(responseStageFallback(state.generatedCode, ApiErrorMessage))
               ELSE Return(finalResponse(outcome.content, state.generatedCode))
    /\ UNCHANGED <<toolVars, workflow, apiKey, system, input, state, assessmentResult,
                   datasetSelectionText, searchTerms, allDatasets, cachedCatalog,
                   consoleCheckResult, runs>>

\* The caller has its response and may submit the next request. The catalog
\* cache outlives the run.
NextRequest ==
    /\ pc = "done"
    /\ runs < MaxRuns
    /\ pc' = "idle"
    /\ input' = None
    /\ state' = NoState
    /\ assessmentResult' = None
    /\ consoleCheckResult' = None
    /\ result' = None
    /\ settled' = 0
    /\ calls' = <<>>
    /\ UNCHANGED <<toolVars, workflow, apiKey, system, datasetSelectionText, searchTerms, allDatasets,
                   cachedCatalog, runs>>

Init ==
    /\ workflow = "minimal"
    /\ InitCommon

Next ==
    \/ InitializeAgentSystem
    \/ \E userInput \in Inputs : Submit(userInput)
    \/ AssessFeasibility
    \/ \E outcome \in Completions(PlanReplies) : PlanCompletion(outcome)
    \/ \E outcome \in Completions(SelectionReplies) : DatasetCompletion(outcome)
    \/ \E outcome \in FetchOutcomes : DatabaseSearch(outcome)
    \/ \E outcome \in Completions(CodeReplies) : CodeCompletion(outcome)
    \/ \E outcome \in Completions(SummaryReplies) : SummaryCompletion(outcome)
    \/ NextRequest

Spec ==
    Init /\ [][Next]_vars

\* ---------------------------------------------------------------------------
\* The stored credential (src/src/lib/config.ts).

\* saveApiKey between two runs: a key is stored, or the empty string, which
\* getApiKey reads as no key.
SaveApiKey(stored) ==
    /\ pc = "idle"
    /\ apiKey # stored
    /\ apiKey' = stored
    /\ UNCHANGED <<toolVars, workflow, system, pc, input, state, assessmentResult,
                   datasetSelectionText, searchTerms, allDatasets, cachedCatalog,
                   consoleCheckResult, result, settled, calls, runs>>

\* The minimal workflow with a user who changes the stored key between runs.
NextStoredKey ==
    \/ Next
    \/ \E stored \in BOOLEAN : SaveApiKey(stored)

SpecStoredKey ==
    Init /\ [][NextStoredKey]_vars

\* ---------------------------------------------------------------------------
\* The Execution/Inspection Bridge (src/src/lib/tools/index.ts).

\* What sendMessageToContentScript can end with: a rejection (no active tab, or
\* chrome.runtime.lastError), or the response the content script sent.
BridgeRejected ==
    [delivered |-> FALSE, success |-> FALSE, errors |-> <<>>, data |-> FALSE]

BridgeResponse(success, errors, data) ==
    [delivered |-> TRUE, success |-> success, errors |-> errors, data |-> data]

RunCodeReplies ==
    {BridgeRejected, BridgeResponse(TRUE, <<>>, FALSE), BridgeResponse(FALSE, <<>>, FALSE)}

ConsoleReplies ==
    {BridgeRejected,
     BridgeResponse(TRUE, <<>>, FALSE),
     BridgeResponse(TRUE, <<[level |-> "error", message |-> "console error"]>>, FALSE),
     BridgeResponse(TRUE, <<[level |-> "warning", message |-> "console warning"]>>, FALSE),
     BridgeResponse(FALSE, <<>>, FALSE)}

InspectReplies ==
    {BridgeRejected, BridgeResponse(TRUE, <<>>, TRUE), BridgeResponse(FALSE, <<>>, FALSE)}

\* A runCode without the catch: a rejected send is reported as a success.
runCodeUncaught(reply) ==
    [success |-> ~reply.delivered \/ reply.success]

\* EarthEngineTools.runCode
runCode(reply) ==
    [success |-> reply.delivered /\ reply.success]

\* EarthEngineTools.checkConsole: a rejection becomes an unsuccessful result
\* that carries one error-level diagnostic.
checkConsole(reply) ==
    IF reply.delivered
    THEN [success |-> reply.success, errors |-> reply.errors]
    ELSE [success |-> FALSE,
          errors |-> <<[level |-> "error", message |-> "could not communicate"]>>]

\* EarthEngineTools.inspectMap
inspectMap(reply) ==
    [success |-> reply.delivered /\ reply.success, data |-> reply.delivered /\ reply.data]

\* ---------------------------------------------------------------------------
\* The agents. Each takes the AgentState and returns the new one, together with
\* the stage operations it invoked.

MissingKeyResponse ==
    Response("missing api key", "")

\* createPlannerAgent (src/src/lib/agents/planner.ts:46-131)
plannerAgent(s, request, key, outcome) ==
    LET assessment == assessmentOf[request]
        assessed == <<Call("plannerAgent", TRUE), Call("assessProblem", TRUE)>>
    IN  IF ~assessment.feasible
        THEN [state |-> [s EXCEPT !.response =
                            Some(Response("not the right tool", assessment.explanation))],
              calls |-> assessed]
        ELSE IF ~key
             THEN [state |-> [s EXCEPT !.response = Some(MissingKeyResponse)],
                   calls |-> assessed]
             ELSE IF ~outcome.ok
                  THEN [state |-> [s EXCEPT !.response =
                                      Some(Response("openai api error", ApiErrorMessage))],
                        calls |-> Append(assessed, Call("plan completion", FALSE))]
                  ELSE [state |-> [s EXCEPT !.taskPlan = Some(outcome.content)],
                        calls |-> Append(assessed, Call("plan completion", TRUE))]

\* extractDatabaseIds and the filter that follows it: the datasets of the search
\* results whose id occurs in the selection text
RECURSIVE selectMentioned(_, _)
selectMentioned(selectionText, searchResults) ==
    IF searchResults = <<>> THEN <<>>
    ELSE IF Includes(selectionText, Head(searchResults).id)
         THEN <<Head(searchResults)>> \o selectMentioned(selectionText, Tail(searchResults))
         ELSE selectMentioned(selectionText, Tail(searchResults))

\* createDatabaseSelectorAgent (src/src/lib/agents/databaseSelector.ts:40-121)
databaseSelectorAgent(s, request, key, cache, fetchOutcome, outcome) ==
    IF ~Truthy(s.taskPlan)
    THEN [state |-> s, cache |-> cache, calls |-> <<Call("databaseSelectorAgent", TRUE)>>]
    ELSE LET fetched == fetchCatalog(cache, fetchOutcome)
             searchResults == databaseSearch[fetched.catalog][request]
             searched == <<Call("databaseSelectorAgent", TRUE), Call("databaseSearch", TRUE)>>
                         \o (IF fetched.fetched
                             THEN <<Call("catalog request",
                                         fetchOutcome.kind # "network error")>>
                             ELSE <<>>)
         IN  IF searchResults = <<>>
             THEN [state |-> [s EXCEPT !.response = Some(Response("no datasets found", ""))],
                   cache |-> fetched.cache, calls |-> searched]
             ELSE IF ~key
                  THEN [state |-> [s EXCEPT !.response = Some(MissingKeyResponse)],
                        cache |-> fetched.cache, calls |-> searched]
                  ELSE IF ~outcome.ok
                       THEN [state |-> [s EXCEPT !.response =
                                           Some(Response("dataset selection error", ""))],
                             cache |-> fetched.cache,
                             calls |-> Append(searched, Call("dataset completion", FALSE))]
                       ELSE [state |-> [s EXCEPT
                                 !.selectedDatabases =
                                     Some(selectMentioned(outcome.content, searchResults)),
                                 !.databaseSelectionText = Some(outcome.content)],
                             cache |-> fetched.cache,
                             calls |-> Append(searched, Call("dataset completion", TRUE))]

\* The code of a completion, as the code generator and the debugger extract it:
\* the trimmed group of the first fenced block, if there is one.
fencedCode(content, otherwise) ==
    LET match == codeBlockMatch(content)
    IN  IF match.matched THEN Trim(match.group) ELSE otherwise

\* createCodeGeneratorAgent (src/unnamed/part_010:38-108)
codeGeneratorAgent(s, key, outcome) ==
    IF s.selectedDatabases = None \/ s.selectedDatabases[1] = <<>>
    THEN [state |-> s, calls |-> <<Call("codeGeneratorAgent", TRUE)>>]
    ELSE IF ~key
         THEN [state |-> [s EXCEPT !.response = Some(MissingKeyResponse)],
               calls |-> <<Call("codeGeneratorAgent", TRUE)>>]
         ELSE IF ~outcome.ok
              THEN [state |-> [s EXCEPT
                        !.generatedCode = Some(ErrorGeneratingCode),
                        !.response = Some(Response("code generation error", ""))],
                    calls |-> <<Call("codeGeneratorAgent", TRUE),
                                Call("code completion", FALSE)>>]
              ELSE [state |-> [s EXCEPT
                        !.generatedCode = Some(fencedCode(outcome.content, outcome.content)),
                        !.response = Some(Response("generated code", ""))],
                    calls |-> <<Call("codeGeneratorAgent", TRUE),
                                Call("code completion", TRUE)>>]

\* [...(state.debugLog || []), entry]
AppendLog(debugLog, entry) ==
    Some(Append(IF debugLog = None THEN <<>> ELSE debugLog[1], entry))

\* state.response || the given message
ResponseOr(response, kind) ==
    IF ResponseTruthy(response) THEN response ELSE Some(Response(kind, ""))

\* createCodeDebuggerAgent (src/src/lib/agents/codeDebugger.ts:43-111). The
\* errors of the state are the diagnostics joined into one string, which is
\* empty only when there is none.
codeDebuggerAgent(s, key, outcome) ==
    IF ~Truthy(s.generatedCode) \/ ~Truthy(s.errors)
    THEN [state |-> s, calls |-> <<Call("codeDebuggerAgent", TRUE)>>]
    ELSE IF ~key
         THEN [state |-> [s EXCEPT !.response = Some(MissingKeyResponse)],
               calls |-> <<Call("codeDebuggerAgent", TRUE)>>]
         ELSE IF ~outcome.ok
              THEN [state |-> [s EXCEPT
                        !.debugLog = AppendLog(s.debugLog, "Error in debugging"),
                        !.response = ResponseOr(s.response, "debugging error")],
                    calls |-> <<Call("codeDebuggerAgent", TRUE),
                                Call("debug completion", FALSE)>>]
              ELSE [state |-> [s EXCEPT
                        !.generatedCode =
                            Some(fencedCode(outcome.content, s.generatedCode[1])),
                        !.debugLog = AppendLog(s.debugLog, "Fixed code issues"),
                        !.errors = None],
                    calls |-> <<Call("codeDebuggerAgent", TRUE),
                                Call("debug completion", TRUE)>>]

\* createSummarizerAgent (src/unnamed/part_009:43-124)
summarizerAgent(s, key, outcome) ==
    IF ~Truthy(s.generatedCode)
    THEN [state |-> s, calls |-> <<Call("summarizerAgent", TRUE)>>]
    ELSE IF ~key
         THEN [state |-> [s EXCEPT !.response = Some(MissingKeyResponse)],
               calls |-> <<Call("summarizerAgent", TRUE)>>]
         ELSE IF ~outcome.ok
              THEN [state |-> [s EXCEPT
                        !.response = ResponseOr(s.response, "summary error")],
                    calls |-> <<Call("summarizerAgent", TRUE),
                                Call("summary completion", FALSE)>>]
              ELSE [state |-> [s EXCEPT
                        !.response = IF outcome.content # <<>>
                                     THEN Some(Summary(outcome.content))
                                     ELSE Some(Response("summary unavailable", ""))],
                    calls |-> <<Call("summarizerAgent", TRUE),
                                Call("summary completion", TRUE)>>]


\* ---------------------------------------------------------------------------
\* The Bridge on its own: a tool wrapper of lib/tools/index.ts sends one message
\* to the active tab, and the content script of contentScript.ts answers it.

\* EarthEngineTools.getTasks
getTasks(reply) ==
    [success |-> reply.delivered /\ reply.success]

\* EarthEngineTools.editScript
editScript(reply) ==
    [success |-> reply.delivered /\ reply.success]

BridgeTools ==
    {"runCode", "inspectMap", "checkConsole", "getTasks", "editScript"}

\* The message type each wrapper hands to sendMessageToContentScript.
MessageTypeOf(tool) ==
    CASE tool = "runCode"      -> "RUN_CODE"
      [] tool = "inspectMap"   -> "INSPECT_MAP"
      [] tool = "checkConsole" -> "CHECK_CONSOLE"
      [] tool = "getTasks"     -> "GET_TASKS"
      [] tool = "editScript"   -> "EDIT_SCRIPT"

\* The result object a wrapper returns for what sendMessageToContentScript
\* gave it: the response of the page, or a rejection.
wrapperResult(tool, reply) ==
    CASE tool = "runCode"      -> runCode(reply)
      [] tool = "inspectMap"   -> inspectMap(reply)
      [] tool = "checkConsole" -> checkConsole(reply)
      [] tool = "getTasks"     -> getTasks(reply)
      [] tool = "editScript"   -> editScript(reply)

\* The wrapper's try/catch around the send: it returns the result object.
wrapperSettles(call, sent, reply) ==
    [call EXCEPT !.pc = "settled", !.sent = sent, !.outcome = "resolved",
                 !.success = wrapperResult(call.tool, reply).success]

\* The cases of the listener's switch that start a handler and answer later.
AsyncTypes ==
    {"RUN_CODE", "INSPECT_MAP", "CHECK_CONSOLE", "GET_TASKS", "EDIT_SCRIPT"}

HandledTypes ==
    AsyncTypes \cup {"CHECK_PAGE"}

\* What the extension sends to a tab: the handled types, and the popup's
\* OPEN_SIDEPANEL, which the switch has no case for.
MessageTypes ==
    HandledTypes \cup {"OPEN_SIDEPANEL"}

\* waitForEarthEngineRunButton's default for maxAttempts.
maxAttempts == 10

\* sendResponse, called by a handler's then or catch.
sendResponse(p, success) ==
    [p EXCEPT !.pc = "settled", !.responses = @ + 1, !.success = success]

\* The listener's synchronous part for one message.
listener(p, type) ==
    LET fresh == [NoPage EXCEPT !.type = type, !.runButton = p.runButton]
    IN  CASE type = "RUN_CODE"   -> [fresh EXCEPT !.pc = "waiting"]
          [] type = "CHECK_PAGE" -> sendResponse(fresh, TRUE)
          [] type \in AsyncTypes \ {"RUN_CODE"} -> [fresh EXCEPT !.pc = "handling"]
          [] OTHER               -> [fresh EXCEPT !.pc = "settled"]

\* A runCode whose failure is not caught by the listener: nothing is answered.
pageRunCodeUnanswered(p, injected, clicked) ==
    IF p.isReady = "true" /\ injected /\ clicked
    THEN [p EXCEPT !.pc = "clicked"]
    ELSE [p EXCEPT !.pc = "settled"]

\* The content script's runCode once the wait resolved: a wait that gave up,
\* a failed injection or a failed click throws and the listener's catch
\* answers; a click that worked leaves the 500 ms timer pending.
pageRunCode(p, injected, clicked) ==
    IF p.isReady = "true" /\ injected /\ clicked
    THEN [p EXCEPT !.pc = "clicked"]
    ELSE sendResponse(p, FALSE)

\* One run of waitForEarthEngineRunButton's executor, and of what follows it
\* in the same task.
waitForEarthEngineRunButton(p, injected, clicked) ==
    IF p.currentAttempt > maxAttempts
    THEN pageRunCode([p EXCEPT !.isReady = "false"], injected, clicked)
    ELSE IF p.runButton
         THEN pageRunCode([p EXCEPT !.polls = @ + 1, !.isReady = "true"], injected, clicked)
         ELSE [p EXCEPT !.polls = @ + 1, !.currentAttempt = @ + 1]

\* A wrapper is called.
CallTool(tool) ==
    /\ workflow = "bridge"
    /\ bridgeCall.pc \in {"idle", "settled"}
    /\ page.pc \in {"idle", "settled"}
    /\ bridgeCall' = [NoBridgeCall EXCEPT !.pc = "querying", !.tool = tool]
    /\ UNCHANGED <<pipelineVars, searches, timedSearch, completion, extraction, chatVars, page>>

\* chrome.tabs.query calls back: without an active tab the send is rejected;
\* with one the message goes out, and a tab without the content script
\* reports chrome.runtime.lastError.
TabsQueried(found, listening) ==
    /\ workflow = "bridge"
    /\ bridgeCall.pc = "querying"
    /\ IF ~found
       THEN /\ bridgeCall' = wrapperSettles(bridgeCall, "no tab", BridgeRejected)
            /\ page' = page
       ELSE IF ~listening
            THEN /\ bridgeCall' = wrapperSettles(bridgeCall, "lastError", BridgeRejected)
                 /\ page' = page
            ELSE /\ bridgeCall' = [bridgeCall EXCEPT !.pc = "sent", !.sent = "delivered"]
                 /\ page' = listener(page, MessageTypeOf(bridgeCall.tool))
    /\ UNCHANGED <<pipelineVars, searches, timedSearch, completion, extraction, chatVars>>

\* Another part of the extension sends a message to the tab.
DirectMessage(type) ==
    /\ workflow = "bridge"
    /\ bridgeCall.pc \in {"idle", "settled"}
    /\ page.pc \in {"idle", "settled"}
    /\ page' = listener(page, type)
    /\ UNCHANGED <<pipelineVars, searches, timedSearch, completion, extraction, chatVars, bridgeCall>>

\* The Earth Engine page draws or removes its run button.
RunButtonChanges ==
    /\ workflow = "bridge"
    /\ page' = [page EXCEPT !.runButton = ~@]
    /\ UNCHANGED <<pipelineVars, searches, timedSearch, completion, extraction, chatVars, bridgeCall>>

\* The wait's executor runs: at once for the first attempt, from the 3 s
\* timer for the later ones.
PollRunButton(injected, clicked) ==
    /\ workflow = "bridge"
    /\ page.pc = "waiting"
    /\ page' = waitForEarthEngineRunButton(page, injected, clicked)
    /\ UNCHANGED <<pipelineVars, searches, timedSearch, completion, extraction, chatVars, bridgeCall>>

\* clickRunButton's 500 ms timer fires: runCode returns and the listener's
\* then answers.
RunTimerFires ==
    /\ workflow = "bridge"
    /\ page.pc = "clicked"
    /\ page' = sendResponse(page, TRUE)
    /\ UNCHANGED <<pipelineVars, searches, timedSearch, completion, extraction, chatVars, bridgeCall>>

\* The handler of one of the other asynchronous types settles.
HandlerSettles(ok) ==
    /\ workflow = "bridge"
    /\ page.pc = "handling"
    /\ page' = sendResponse(page, ok)
    /\ UNCHANGED <<pipelineVars, searches, timedSearch, completion, extraction, chatVars, bridgeCall>>

\* The wrapper's send callback runs with the page's response.
MessageAnswered ==
    /\ workflow = "bridge"
    /\ bridgeCall.pc = "sent"
    /\ page.pc = "settled"
    /\ bridgeCall' = wrapperSettles(bridgeCall, "answered",
                                    BridgeResponse(page.success, <<>>, page.success))
    /\ UNCHANGED <<pipelineVars, searches, timedSearch, completion, extraction, chatVars, page>>

InitBridgeTools ==
    /\ InitCommon
    /\ workflow = "bridge"

PageSteps ==
    \/ \E injected, clicked \in BOOLEAN : PollRunButton(injected, clicked)
    \/ RunTimerFires
    \/ \E ok \in BOOLEAN : HandlerSettles(ok)

NextBridgeTools ==
    \/ \E tool \in BridgeTools : CallTool(tool)
    \/ \E found, listening \in BOOLEAN : TabsQueried(found, listening)
    \/ \E type \in MessageTypes : DirectMessage(type)
    \/ RunButtonChanges
    \/ PageSteps
    \/ MessageAnswered

\* The browser's event loop runs every pending callback and timer.
SpecBridgeTools ==
    /\ InitBridgeTools
    /\ [][NextBridgeTools]_vars
    /\ WF_vars(\E found, listening \in BOOLEAN : TabsQueried(found, listening))
    /\ WF_vars(PageSteps)
    /\ WF_vars(MessageAnswered)
\* ---------------------------------------------------------------------------
\* The agent-based workflow (src/unnamed/part_006). The Bridge wrappers and the
\* agents catch their own failures, so the catch blocks of the orchestrator
\* (part_006:108-125, 131-136, 144-153) have nothing to catch.

\* initializeAgentSystem of part_006: creates the five agents and returns the
\* workflow function.
InitializeAgents ==
    /\ workflow = "agents"
    /\ system = "uninitialized"
    /\ system' = "workflow"
    /\ UNCHANGED <<toolVars, workflow, apiKey, pc, input, state, assessmentResult,
                   datasetSelectionText, searchTerms, allDatasets, cachedCatalog,
                   consoleCheckResult, result, settled, calls, runs>>

\* The AgentResponse the workflow builds from the state.
agentResponse(s) ==
    Resolved(IF ResponseTruthy(s.response) THEN s.response[1]
             ELSE Response("no response generated", ""),
             Some(OrElse(s.generatedCode, NoCodeGenerated)), s.debugLog)

\* One call of the workflow function, up to the first await.
SubmitToAgents(userInput) ==
    /\ workflow = "agents"
    /\ system = "workflow"
    /\ pc = "idle"
    /\ input' = Some(userInput)
    /\ runs' = runs + 1
    /\ IF IsFalsy(userInput)
       THEN Return(emptyInputResponse)
       ELSE /\ pc' = "planner"
            /\ UNCHANGED <<result, settled>>
    /\ UNCHANGED <<toolVars, workflow, apiKey, system, state, assessmentResult, datasetSelectionText,
                   searchTerms, allDatasets, cachedCatalog, consoleCheckResult, calls>>

\* Step 1: the planner; a response set by the planner ends the run.
PlannerAgent(outcome) ==
    /\ pc = "planner"
    /\ \E step \in {plannerAgent(state, input[1], apiKey, outcome)} :
           /\ state' = step.state
           /\ calls' = calls \o step.calls
           /\ assessmentResult' = Some(assessmentOf[input[1]])
           /\ IF ResponseTruthy(step.state.response)
              THEN Return(Resolved(step.state.response[1],
                                   Some(OrElse(step.state.generatedCode, NoCodeGenerated)),
                                   None))
              ELSE /\ pc' = "selector"
                   /\ UNCHANGED <<result, settled>>
    /\ UNCHANGED <<toolVars, workflow, apiKey, system, input, datasetSelectionText, searchTerms,
                   allDatasets, cachedCatalog, consoleCheckResult, runs>>

\* Step 2: the database selector.
DatabaseSelectorAgent(fetchOutcome, outcome) ==
    /\ pc = "selector"
    /\ \E step \in {databaseSelectorAgent(state, input[1], apiKey, cachedCatalog,
                                         fetchOutcome, outcome)} :
           /\ state' = step.state
           /\ cachedCatalog' = step.cache
           /\ calls' = calls \o step.calls
    /\ pc' = "generator"
    /\ UNCHANGED <<toolVars, workflow, apiKey, system, input, assessmentResult, datasetSelectionText,
                   searchTerms, allDatasets, consoleCheckResult, result, settled, runs>>

\* Step 3: the code generator.
CodeGeneratorAgent(outcome) ==
    /\ pc = "generator"
    /\ \E step \in {codeGeneratorAgent(state, apiKey, outcome)} :
           /\ state' = step.state
           /\ calls' = calls \o step.calls
    /\ pc' = "runCode"
    /\ UNCHANGED <<toolVars, workflow, apiKey, system, input, assessmentResult, datasetSelectionText,
                   searchTerms, allDatasets, cachedCatalog, consoleCheckResult, result,
                   settled, runs>>

\* Step 4: runCode(state.generatedCode || '').
RunCode(reply) ==
    /\ pc = "runCode"
    /\ calls' = Append(calls, Call("runCode", runCode(reply).success))
    /\ pc' = "checkConsole"
    /\ UNCHANGED <<toolVars, workflow, apiKey, system, input, state, assessmentResult,
                   datasetSelectionText, searchTerms, allDatasets, cachedCatalog,
                   consoleCheckResult, result, settled, runs>>

\* Step 4, continued: checkConsole; its diagnostics reach the state only when
\* the check succeeded and returned some.
CheckConsole(reply) ==
    /\ pc = "checkConsole"
    /\ LET check == checkConsole(reply)
       IN  /\ consoleCheckResult' = Some(check)
           /\ calls' = Append(calls, Call("checkConsole", check.success))
           /\ IF check.success /\ check.errors # <<>>
              THEN /\ state' = [state EXCEPT !.errors = Some(check.errors)]
                   /\ pc' = "debugger"
              ELSE /\ pc' = "inspectMap"
                   /\ UNCHANGED state
    /\ UNCHANGED <<toolVars, workflow, apiKey, system, input, assessmentResult, datasetSelectionText,
                   searchTerms, allDatasets, cachedCatalog, result, settled, runs>>

\* Step 5: the debugger; the code runs again only if the state holds code.
CodeDebuggerAgent(outcome) ==
    /\ pc = "debugger"
    /\ \E step \in {codeDebuggerAgent(state, apiKey, outcome)} :
           /\ state' = step.state
           /\ calls' = calls \o step.calls
           /\ pc' = IF Truthy(step.state.generatedCode) THEN "retry" ELSE "inspectMap"
    /\ UNCHANGED <<toolVars, workflow, apiKey, system, input, assessmentResult, datasetSelectionText,
                   searchTerms, allDatasets, cachedCatalog, consoleCheckResult, result,
                   settled, runs>>

\* Step 5, continued: runCode(state.generatedCode) with the code of the debugger.
RetryRunCode(reply) ==
    /\ pc = "retry"
    /\ calls' = Append(calls, Call("runCode", runCode(reply).success))
    /\ pc' = "inspectMap"
    /\ UNCHANGED <<toolVars, workflow, apiKey, system, input, state, assessmentResult,
                   datasetSelectionText, searchTerms, allDatasets, cachedCatalog,
                   consoleCheckResult, result, settled, runs>>

\* Step 6: inspectMap.
InspectMap(reply) ==
    /\ pc = "inspectMap"
    /\ LET inspectionResult == inspectMap(reply)
       IN  /\ calls' = Append(calls, Call("inspectMap", inspectionResult.success))
           /\ state' = IF inspectionResult.data
                       THEN [state EXCEPT !.inspectionResults = Some("inspection data")]
                       ELSE state
    /\ pc' = "summarizer"
    /\ UNCHANGED <<toolVars, workflow, apiKey, system, input, assessmentResult, datasetSelectionText,
                   searchTerms, allDatasets, cachedCatalog, consoleCheckResult, result,
                   settled, runs>>

\* Step 7: the summarizer, and the response of the run.
SummarizerAgent(outcome) ==
    /\ pc = "summarizer"
    /\ \E step \in {summarizerAgent(state, apiKey, outcome)} :
           /\ state' = step.state
           /\ calls' = calls \o step.calls
           /\ Return(agentResponse(step.state))
    /\ UNCHANGED <<toolVars, workflow, apiKey, system, input, assessmentResult, datasetSelectionText,
                   searchTerms, allDatasets, cachedCatalog, consoleCheckResult, runs>>

InitAgents ==
    /\ workflow = "agents"
    /\ InitCommon

NextAgents ==
    \/ InitializeAgents
    \/ \E userInput \in Inputs : SubmitToAgents(userInput)
    \/ \E outcome \in Completions(PlanReplies) : PlannerAgent(outcome)
    \/ \E fetchOutcome \in FetchOutcomes, outcome \in Completions(IdSelectionReplies) :
           DatabaseSelectorAgent(fetchOutcome, outcome)
    \/ \E outcome \in Completions(CodeReplies) : CodeGeneratorAgent(outcome)
    \/ \E reply \in RunCodeReplies : RunCode(reply)
    \/ \E reply \in ConsoleReplies : CheckConsole(reply)
    \/ \E outcome \in Completions(DebuggerReplies) : CodeDebuggerAgent(outcome)
    \/ \E reply \in RunCodeReplies : RetryRunCode(reply)
    \/ \E reply \in InspectReplies : InspectMap(reply)
    \/ \E outcome \in Completions(SummaryReplies) : SummarizerAgent(outcome)
    \/ NextRequest

SpecAgents ==
    InitAgents /\ [][NextAgents]_vars

\* Either revision of the orchestrator.
InitBoth ==
    /\ workflow \in {"minimal", "agents"}
    /\ InitCommon

NextBoth ==
    Next \/ NextAgents

SpecBoth ==
    InitBoth /\ [][NextBoth]_vars

\* ---------------------------------------------------------------------------
\* The wait for the page. sendMessageToContentScript (tools/index.ts:65-88)
\* settles only in the callback of chrome.tabs.sendMessage; it starts no timer.
\* A content script that keeps the channel open and never calls sendResponse
\* leaves the orchestrator in its await.

BridgeWaits ==
    {"runCode", "checkConsole", "retry", "inspectMap"}

\* The page never answers the message the run is waiting on.
PageSilent ==
    /\ workflow = "agents"
    /\ pc \in BridgeWaits
    /\ pc' = "unanswered"
    /\ UNCHANGED <<toolVars, workflow, apiKey, system, input, state, assessmentResult,
                   datasetSelectionText, searchTerms, allDatasets, cachedCatalog,
                   consoleCheckResult, result, settled, calls, runs>>

NextBridge ==
    \/ NextAgents
    \/ PageSilent

\* Every step that is enabled is eventually taken: the event loop runs each
\* continuation whose promise has settled.
SpecBridge ==
    InitAgents /\ [][NextBridge]_vars /\ WF_vars(NextBridge)

\* ---------------------------------------------------------------------------
\* The LangGraph workflow (src/unnamed/part_005): six nodes over one graph
\* state, run one after the other by app.invoke. The agents and the Bridge
\* wrappers catch their own failures, so the catch blocks of the nodes have
\* nothing to catch.

GraphNodes ==
    {"plannerNode", "databaseSelectorNode", "codeGeneratorNode", "codeExecutionNode",
     "codeDebuggerNode", "summarizerNode"}

\* A node that returns the state it was given.
Skipped(s, cache) ==
    [state |-> s, cache |-> cache, calls |-> <<>>]

plannerNode(s, request, key, cache, outcome) ==
    LET step == plannerAgent(s, request, key, outcome)
    IN  [state |-> step.state, cache |-> cache, calls |-> step.calls]

databaseSelectorNode(s, request, key, cache, fetchOutcome, outcome) ==
    IF ResponseTruthy(s.response)
    THEN Skipped(s, cache)
    ELSE databaseSelectorAgent(s, request, key, cache, fetchOutcome, outcome)

codeGeneratorNode(s, key, cache, outcome) ==
    IF ResponseTruthy(s.response)
    THEN Skipped(s, cache)
    ELSE LET step == codeGeneratorAgent(s, key, outcome)
         IN  [state |-> step.state, cache |-> cache, calls |-> step.calls]

\* runCode, checkConsole and, when the console shows no diagnostics, inspectMap;
\* skipped when the state holds a response or no code.
codeExecutionNode(s, cache, runReply, consoleReply, inspectReply) ==
    IF ResponseTruthy(s.response) \/ ~Truthy(s.generatedCode)
    THEN Skipped(s, cache)
    ELSE LET check == checkConsole(consoleReply)
             inspectionResult == inspectMap(inspectReply)
             executed == <<Call("runCode", runCode(runReply).success),
                           Call("checkConsole", check.success)>>
         IN  IF check.success /\ check.errors # <<>>
             THEN [state |-> [s EXCEPT !.errors = Some(check.errors)],
                   cache |-> cache, calls |-> executed]
             ELSE [state |-> IF inspectionResult.data
                             THEN [s EXCEPT !.inspectionResults = Some("inspection data")]
                             ELSE s,
                   cache |-> cache,
                   calls |-> Append(executed, Call("inspectMap", inspectionResult.success))]

\* The debugger, and one more runCode when the debugger changed the code.
codeDebuggerNode(s, key, cache, outcome, runReply) ==
    IF ~Truthy(s.errors) \/ ~Truthy(s.generatedCode)
    THEN Skipped(s, cache)
    ELSE LET step == codeDebuggerAgent(s, key, outcome)
         IN  [state |-> step.state,
              cache |-> cache,
              calls |-> step.calls \o
                        (IF /\ Truthy(step.state.generatedCode)
                            /\ step.state.generatedCode # s.generatedCode
                         THEN <<Call("runCode", runCode(runReply).success)>>
                         ELSE <<>>)]

summarizerNode(s, key, cache, outcome) ==
    IF ResponseTruthy(s.response)
    THEN Skipped(s, cache)
    ELSE LET step == summarizerAgent(s, key, outcome)
         IN  [state |-> step.state, cache |-> cache, calls |-> step.calls]

\* What a node is given besides the state: the outcome of its completion call,
\* of the catalog request, and the replies of the page.
NodeInput(outcome, fetch, run, console, inspect) ==
    [completion |-> outcome, fetch |-> fetch, run |-> run, console |-> console,
     inspect |-> inspect]

NodeInputs(node) ==
    CASE node = "plannerNode" ->
             {NodeInput(c, NetworkError, BridgeRejected, BridgeRejected, BridgeRejected) :
                  c \in Completions(PlanReplies)}
      [] node = "databaseSelectorNode" ->
             {NodeInput(c, f, BridgeRejected, BridgeRejected, BridgeRejected) :
                  c \in Completions(IdSelectionReplies), f \in FetchOutcomes}
      [] node = "codeGeneratorNode" ->
             {NodeInput(c, NetworkError, BridgeRejected, BridgeRejected, BridgeRejected) :
                  c \in Completions(CodeReplies)}
      [] node = "codeExecutionNode" ->
             {NodeInput(Failure, NetworkError, r, c, i) :
                  r \in RunCodeReplies, c \in ConsoleReplies, i \in InspectReplies}
      [] node = "codeDebuggerNode" ->
             {NodeInput(c, NetworkError, r, BridgeRejected, BridgeRejected) :
                  c \in Completions(DebuggerReplies), r \in RunCodeReplies}
      [] node = "summarizerNode" ->
             {NodeInput(c, NetworkError, BridgeRejected, BridgeRejected, BridgeRejected) :
                  c \in Completions(SummaryReplies)}

nodeResult(node, s, request, key, cache, in) ==
    CASE node = "plannerNode" -> plannerNode(s, request, key, cache, in.completion)
      [] node = "databaseSelectorNode" ->
             databaseSelectorNode(s, request, key, cache, in.fetch, in.completion)
      [] node = "codeGeneratorNode" -> codeGeneratorNode(s, key, cache, in.completion)
      [] node = "codeExecutionNode" ->
             codeExecutionNode(s, cache, in.run, in.console, in.inspect)
      [] node = "codeDebuggerNode" ->
             codeDebuggerNode(s, key, cache, in.completion, in.run)
      [] node = "summarizerNode" -> summarizerNode(s, key, cache, in.completion)

\* The channels of the graph state after a node returned: a returned value
\* replaces the channel; the debugLog channel concatenates it to what it holds.
applyUpdate(existing, update) ==
    [update EXCEPT !.debugLog =
        IF update.debugLog = None
        THEN existing.debugLog
        ELSE Some((IF existing.debugLog = None THEN <<>> ELSE existing.debugLog[1])
                  \o update.debugLog[1])]

\* The edges of the graph.
nextNode(node, s) ==
    CASE node = "plannerNode" ->
             IF ResponseTruthy(s.response) THEN "END" ELSE "databaseSelectorNode"
      [] node = "databaseSelectorNode" -> "codeGeneratorNode"
      [] node = "codeGeneratorNode" -> "codeExecutionNode"
      [] node = "codeExecutionNode" ->
             IF Truthy(s.errors) THEN "codeDebuggerNode" ELSE "summarizerNode"
      [] node = "codeDebuggerNode" -> "summarizerNode"
      [] node = "summarizerNode" -> "END"

\* The AgentResponse built from the result of app.invoke.
graphResponse(s) ==
    Resolved(IF ResponseTruthy(s.response) THEN s.response[1]
             ELSE Response("no response generated", ""),
             s.generatedCode, s.debugLog)

\* initializeAgentSystem of part_005: creates the agents, compiles the graph and
\* returns the function that invokes it.
InitializeGraph ==
    /\ workflow = "graph"
    /\ system = "uninitialized"
    /\ system' = "graph"
    /\ UNCHANGED <<toolVars, workflow, apiKey, pc, input, state, assessmentResult,
                   datasetSelectionText, searchTerms, allDatasets, cachedCatalog,
                   consoleCheckResult, result, settled, calls, runs>>

\* One call of the returned function, up to app.invoke({ input }).
SubmitToGraph(userInput) ==
    /\ workflow = "graph"
    /\ system = "graph"
    /\ pc = "idle"
    /\ input' = Some(userInput)
    /\ runs' = runs + 1
    /\ IF IsFalsy(userInput)
       THEN Return(emptyInputResponse)
       ELSE /\ pc' = "plannerNode"
            /\ UNCHANGED <<result, settled>>
    /\ UNCHANGED <<toolVars, workflow, apiKey, system, state, assessmentResult,
                   datasetSelectionText, searchTerms, allDatasets, cachedCatalog,
                   consoleCheckResult, calls>>

\* app.invoke runs the node the graph is at and follows the edge that leaves
\* it; at END the function returns its response.
InvokeNode ==
    /\ workflow = "graph"
    /\ pc \in GraphNodes
    /\ \E in \in NodeInputs(pc) :
       \E step \in {nodeResult(pc, state, input[1], apiKey, cachedCatalog, in)} :
       \E after \in {applyUpdate(state, step.state)} :
           /\ state' = after
           /\ cachedCatalog' = step.cache
           /\ calls' = calls \o step.calls
           /\ IF nextNode(pc, after) = "END"
              THEN Return(graphResponse(after))
              ELSE /\ pc' = nextNode(pc, after)
                   /\ UNCHANGED <<result, settled>>
    /\ assessmentResult' = IF pc = "plannerNode" THEN Some(assessmentOf[input[1]])
                           ELSE assessmentResult
    /\ UNCHANGED <<toolVars, workflow, apiKey, system, input, datasetSelectionText,
                   searchTerms, allDatasets, consoleCheckResult, runs>>

InitGraph ==
    /\ workflow = "graph"
    /\ InitCommon

NextGraph ==
    \/ InitializeGraph
    \/ \E userInput \in Inputs : SubmitToGraph(userInput)
    \/ InvokeNode
    \/ NextRequest

SpecGraph ==
    InitGraph /\ [][NextGraph]_vars

\* ---------------------------------------------------------------------------
\* The catalog search called on its own (src/src/lib/tools/databaseSearch.ts):
\* several callers, each in a call of searchEarthEngineDatabase. A call runs
\* without interruption except at the await of axios.get.

\* The terms the callers search for.
SearchedTerms ==
    {ElevationInput, TrafficMapInput}

\* searchEarthEngineDatabase(term) up to the await of axios.get. With a catalog
\* in the cache the call returns; otherwise fetchCatalog has issued its request.
StartSearch(caller, term) ==
    /\ workflow = "tools"
    /\ searches[caller].pc \in {"idle", "done"}
    /\ \E lookup \in {fetchCatalog(cachedCatalog, NetworkError)} :
           searches' = [searches EXCEPT ![caller] =
               IF lookup.fetched
               THEN [pc |-> "fetching", term |-> term, cached |-> FALSE, fetched |-> TRUE,
                     result |-> <<>>]
               ELSE [pc |-> "done", term |-> term, cached |-> TRUE, fetched |-> FALSE,
                     result |-> databaseSearch[lookup.catalog][term]]]
    /\ UNCHANGED <<pipelineVars, bridgeVars, timedSearch, completion, extraction, chatVars>>

\* The request of a caller settles: fetchCatalog stores the body it received
\* (whatever another caller has stored meanwhile) or, on an error, returns the
\* sample; the search then runs to its end.
CatalogRequestSettles(caller, outcome) ==
    /\ workflow = "tools"
    /\ searches[caller].pc = "fetching"
    /\ \E fetch \in {fetchCatalog(NullCatalog, outcome)} :
           /\ cachedCatalog' = IF fetch.cache = NullCatalog THEN cachedCatalog ELSE fetch.cache
           /\ searches' = [searches EXCEPT ![caller].pc = "done",
                                           ![caller].result =
                                               databaseSearch[fetch.catalog][searches[caller].term]]
    /\ UNCHANGED <<workflow, apiKey, system, pc, input, state, assessmentResult,
                   datasetSelectionText, searchTerms, allDatasets, consoleCheckResult,
                   result, settled, calls, runs, timedSearch, completion, extraction, chatVars, bridgeVars>>

InitSearch ==
    /\ workflow = "tools"
    /\ apiKey = FALSE
    /\ system = "uninitialized"
    /\ cachedCatalog = NullCatalog
    /\ runs = 0
    /\ RunStart
    /\ ToolsIdle

NextSearch ==
    \/ \E caller \in Searchers, term \in SearchedTerms : StartSearch(caller, term)
    \/ \E caller \in Searchers, outcome \in FetchOutcomes : CatalogRequestSettles(caller, outcome)

SpecSearch ==
    InitSearch /\ [][NextSearch]_vars

\* ---------------------------------------------------------------------------
\* The catalog search with a timeframe (src/unnamed/part_011): databaseSearch
\* and scoreAndSortDatasetsByTime.

\* The characters of the dates and years the ranking compares, in the order of
\* their code units (the order of the JavaScript operators < and >).
CodeUnits ==
    <<"-", "0", "1", "2", "3", "4", "5", "6", "7", "8", "9",
      "e", "n", "o", "p", "r", "s", "t", "w">>

CodeUnit(c) ==
    CHOOSE i \in 1..Len(CodeUnits) : CodeUnits[i] = c

\* a < b for strings
RECURSIVE StringLess(_, _)
StringLess(a, b) ==
    IF b = <<>> THEN FALSE
    ELSE IF a = <<>> THEN TRUE
    ELSE IF Head(a) = Head(b) THEN StringLess(Tail(a), Tail(b))
    ELSE CodeUnit(Head(a)) < CodeUnit(Head(b))

\* a <= b for strings
StringAtMost(a, b) ==
    a = b \/ StringLess(a, b)

\* String.prototype.substring(0, 4)
Year(date) ==
    SubSeq(date, 1, IF Len(date) < 4 THEN Len(date) ELSE 4)

\* parseInt of a string of digits
RECURSIVE parseInt(_)
parseInt(digits) ==
    IF digits = <<>> THEN 0
    ELSE 10 * parseInt(SubSeq(digits, 1, Len(digits) - 1)) + (CodeUnit(digits[Len(digits)]) - 2)

\* new Date().getFullYear().toString()
currentYear ==
    <<"2", "0", "2", "6">>

\* endDate === 'present' || endDate.includes('now')
Ongoing(endDate) ==
    endDate = <<"p", "r", "e", "s", "e", "n", "t">> \/ Includes(endDate, <<"n", "o", "w">>)

\* Entries of the catalog of GitHub, in the fields the search reads. The dates
\* stand for (dataset.startDate || dataset.start_date || '') and the like.
TimedCatalog ==
    <<[id |-> <<"S", "R", "T", "M">>, title |-> <<"d", "e", "m">>, description |-> <<>>, type |-> <<"i", "m", "a", "g", "e">>,
       startDate |-> <<"2", "0", "0", "0", "-", "0", "2", "-", "1", "1">>, endDate |-> <<"2", "0", "0", "0", "-", "0", "2", "-", "2", "2">>],
      [id |-> <<"A", "S", "T", "E", "R">>, title |-> <<"d", "e", "m">>, description |-> <<>>, type |-> <<"i", "m", "a", "g", "e">>,
       startDate |-> <<"2", "0", "0", "0", "-", "0", "3", "-", "0", "1">>, endDate |-> <<"p", "r", "e", "s", "e", "n", "t">>],
      [id |-> <<"A", "L", "O", "S">>, title |-> <<"d", "e", "m">>, description |-> <<>>, type |-> <<"i", "m", "a", "g", "e">>,
       startDate |-> <<"2", "0", "0", "6", "-", "0", "1", "-", "2", "4">>, endDate |-> <<"p", "r", "e", "s", "e", "n", "t">>],
      [id |-> <<"C", "O", "P">>, title |-> <<"d", "e", "m">>, description |-> <<>>, type |-> <<"i", "m", "a", "g", "e">>,
       startDate |-> <<"2", "0", "1", "0", "-", "1", "2", "-", "0", "1">>, endDate |-> <<"p", "r", "e", "s", "e", "n", "t">>],
      [id |-> <<"N", "E", "D">>, title |-> <<"d", "e", "m">>, description |-> <<>>, type |-> <<"i", "m", "a", "g", "e">>,
       startDate |-> <<"1", "9", "9", "8", "-", "0", "1", "-", "0", "1">>, endDate |-> <<"2", "0", "0", "0", "-", "0", "2", "-", "2", "2">>],
      [id |-> <<"N", "L", "C", "D">>, title |-> <<"l", "a", "n", "d">>, description |-> <<>>, type |-> <<"i", "m", "a", "g", "e">>,
       startDate |-> <<"2", "0", "0", "1", "-", "0", "1", "-", "0", "1">>, endDate |-> <<"2", "0", "2", "1", "-", "0", "1", "-", "0", "1">>]>>

\* The timeframes of the calls: none, both dates (twice), the start date only,
\* and an object that holds neither.
Timeframes ==
    {NoTimeframe, Timeframe(<<"2", "0", "0", "5", "-", "0", "1", "-", "0", "1">>, <<"2", "0", "1", "0", "-", "1", "2", "-", "3", "1">>),
     Timeframe(<<"1", "9", "9", "9", "-", "0", "1", "-", "0", "1">>, <<"2", "0", "0", "5", "-", "1", "2", "-", "3", "1">>), Timeframe(<<"2", "0", "1", "2", "-", "0", "1", "-", "0", "1">>, <<>>),
     Timeframe(<<>>, <<>>)}

\* The comparator of the sort without a timeframe (part_011:203-210): negative
\* when a goes first, positive when b goes first.
compareEndDates(a, b) ==
    IF Ongoing(a.endDate) THEN -1
    ELSE IF Ongoing(b.endDate) THEN 1
    ELSE IF StringLess(b.endDate, a.endDate) THEN -1
    ELSE IF StringLess(a.endDate, b.endDate) THEN 1
    ELSE 0

\* The comparator of the sort with a timeframe (part_011:291).
compareTimeScores(a, b) ==
    b.timeScore - a.timeScore

\* Math.min and Math.max
Min(a, b) ==
    IF a < b THEN a ELSE b

Max(a, b) ==
    IF a > b THEN a ELSE b

\* The score of one dataset for a timeframe (part_011:214-283).
timeScore(dataset, timeframe) ==
    LET startDate == dataset.startDate
        endDate == dataset.endDate
        datasetStartYear == IF startDate # <<>> THEN Year(startDate) ELSE <<>>
        datasetEndYear == IF endDate # <<>> /\ ~Includes(endDate, <<"p", "r", "e", "s", "e", "n", "t">>)
                             /\ ~Includes(endDate, <<"n", "o", "w">>)
                          THEN Year(endDate) ELSE currentYear
        requestStartYear == IF timeframe.start # <<>> THEN Year(timeframe.start) ELSE <<>>
        requestEndYear == IF timeframe.end # <<>> THEN Year(timeframe.end) ELSE currentYear
    IN  IF requestStartYear # <<>> /\ requestEndYear # <<>>
        THEN IF datasetStartYear # <<>> /\ datasetEndYear # <<>>
                /\ (\/ (StringAtMost(datasetStartYear, requestEndYear)
                        /\ StringAtMost(requestStartYear, datasetEndYear))
                    \/ Ongoing(endDate))
             THEN 100
                  + (IF StringAtMost(datasetStartYear, requestStartYear)
                        /\ (StringAtMost(requestEndYear, datasetEndYear) \/ Ongoing(endDate))
                     THEN 50 ELSE 0)
                  + (IF Ongoing(endDate) THEN 20 ELSE 0)
             ELSE 0
        ELSE IF requestStartYear # <<>>
             THEN IF datasetStartYear # <<>> /\ StringAtMost(datasetStartYear, requestStartYear)
                     /\ (StringAtMost(requestStartYear, datasetEndYear) \/ Ongoing(endDate))
                  THEN 100 + (IF Ongoing(endDate) THEN 30 ELSE 0)
                  ELSE 0
             ELSE IF Ongoing(endDate)
                  THEN 100 + (IF datasetStartYear # <<>>
                              THEN Min(parseInt(currentYear) - parseInt(datasetStartYear), 30)
                              ELSE 0)
                  ELSE IF datasetEndYear # <<>>
                       THEN Max(0, 100 - (parseInt(currentYear) - parseInt(datasetEndYear)) * 10)
                       ELSE 0

\* Array.prototype.sort(compare): the orders the sort can leave the array in.
\* An element stays behind another when the comparator puts it there, and
\* elements that compare equal keep their order. Where the comparator answers
\* "first" for both orders of a pair, ECMAScript leaves the order to the
\* implementation, and both orders of the pair are kept. The comparator is the
\* one of the scores (byScore) or the one of the end dates.
sortOutcomes(seq, byScore) ==
    LET n == Len(seq)
        compare(a, b) == IF byScore THEN compareTimeScores(a, b) ELSE compareEndDates(a, b)
        Orders == {p \in [1..n -> 1..n] : \A i, j \in 1..n : p[i] = p[j] => i = j}
        Allowed(p) ==
            \A i, j \in 1..n :
                i < j =>
                    LET a == seq[p[i]]
                        b == seq[p[j]]
                    IN  \/ compare(a, b) < 0
                        \/ compare(a, b) = 0 /\ p[i] < p[j]
                        \/ compare(a, b) > 0 /\ compare(b, a) > 0
    IN  {[i \in 1..n |-> seq[p[i]]] : p \in {q \in Orders : Allowed(q)}}

\* scoreAndSortDatasetsByTime: without a timeframe the datasets are sorted by
\* end date and carry no score; with one they are scored and sorted by score.
scoreAndSortDatasetsByTime(datasets, timeframe) ==
    IF ~timeframe.given
    THEN sortOutcomes([i \in 1..Len(datasets) |->
                          [name |-> datasets[i].id, endDate |-> datasets[i].endDate,
                           timeScore |-> <<>>]],
                      FALSE)
    ELSE LET scored == [i \in 1..Len(datasets) |->
                           [name |-> datasets[i].id, endDate |-> datasets[i].endDate,
                            timeScore |-> timeScore(datasets[i], timeframe)]]
             ranked == sortOutcomes(scored, TRUE)
         IN  {[i \in 1..Len(r) |-> [r[i] EXCEPT !.timeScore = <<r[i].timeScore>>]] : r \in ranked}

\* data.filter(...): the datasets whose id, title, description or type holds the term,
\* compared in lower case (part_011:110-123).
RECURSIVE matchingDatasets(_, _)
matchingDatasets(data, searchTerm) ==
    IF data = <<>> THEN <<>>
    ELSE LET dataset == Head(data)
             searchTermLower == ToLowerCase(searchTerm)
             rest == matchingDatasets(Tail(data), searchTerm)
         IN  IF \/ Includes(ToLowerCase(dataset.id), searchTermLower)
                \/ Includes(ToLowerCase(dataset.title), searchTermLower)
                \/ Includes(ToLowerCase(dataset.description), searchTermLower)
                \/ Includes(ToLowerCase(dataset.type), searchTermLower)
             THEN <<dataset>> \o rest
             ELSE rest

\* What the request for the catalog of GitHub can end with: an array, a
\* response that is not ok, a body that is not JSON, or a network failure.
GitHubOutcomes ==
    {[kind |-> "array", data |-> TimedCatalog],
     [kind |-> "array", data |-> <<>>],
     [kind |-> "not ok", data |-> <<>>],
     [kind |-> "malformed", data |-> <<>>],
     [kind |-> "network error", data |-> <<>>]}

\* What the page answers to SEARCH_DATASETS within the 5 seconds: nothing, an
\* empty list, or datasets.
PageSearchOutcomes ==
    {[kind |-> "timeout", results |-> <<>>],
     [kind |-> "results", results |-> <<>>],
     [kind |-> "results", results |-> <<TimedCatalog[6], TimedCatalog[2]>>]}

\* The terms of the calls.
TimedTerms ==
    {<<"D", "E", "M">>, <<"i", "c", "e">>}


\* databaseSearch(searchTerm, timeframe) up to the await of fetch.
CallDatabaseSearch(searchTerm, timeframe) ==
    /\ workflow = "timed search"
    /\ timedSearch.pc \in {"idle", "returned"}
    /\ timedSearch' = [NoTimedSearch EXCEPT !.pc = "fetching", !.term = searchTerm,
                                            !.timeframe = timeframe]
    /\ UNCHANGED <<pipelineVars, bridgeVars, searches, completion, extraction, chatVars>>

\* The request for the catalog settles. Matching datasets are ranked and
\* returned; with none, or when the request failed, the call turns to the
\* page and sends SEARCH_DATASETS.
GitHubFetchSettles(outcome) ==
    /\ workflow = "timed search"
    /\ timedSearch.pc = "fetching"
    /\ LET matching == matchingDatasets(outcome.data, timedSearch.term)
       IN  IF outcome.kind = "array" /\ matching # <<>>
           THEN \E ranked \in scoreAndSortDatasetsByTime(matching, timedSearch.timeframe) :
                    timedSearch' = [timedSearch EXCEPT !.pc = "returned",
                                                       !.fetch = outcome.kind,
                                                       !.source = "GitHub Catalog",
                                                       !.results = ranked]
           ELSE timedSearch' = [timedSearch EXCEPT !.pc = "page search",
                                                   !.fetch = outcome.kind]
    /\ UNCHANGED <<pipelineVars, bridgeVars, searches, completion, extraction, chatVars>>

\* sendMessageToContentScript('SEARCH_DATASETS') settles: a rejection is caught
\* by the outer catch, which returns the empty list; otherwise the call waits
\* for the SEARCH_RESULTS message.
PageSearchSettles(delivered) ==
    /\ workflow = "timed search"
    /\ timedSearch.pc = "page search"
    /\ timedSearch' = IF delivered
                      THEN [timedSearch EXCEPT !.pc = "awaiting results"]
                      ELSE [timedSearch EXCEPT !.pc = "returned", !.source = "catch"]
    /\ UNCHANGED <<pipelineVars, bridgeVars, searches, completion, extraction, chatVars>>

\* The SEARCH_RESULTS message arrives, or the timer of 5 seconds fires; the
\* results are ranked and returned.
SearchResultsOrTimeout(outcome) ==
    /\ workflow = "timed search"
    /\ timedSearch.pc = "awaiting results"
    /\ \E ranked \in scoreAndSortDatasetsByTime(outcome.results, timedSearch.timeframe) :
           timedSearch' = [timedSearch EXCEPT !.pc = "returned",
                                              !.source = "Earth Engine API",
                                              !.results = ranked]
    /\ UNCHANGED <<pipelineVars, bridgeVars, searches, completion, extraction, chatVars>>

InitTimedSearch ==
    /\ workflow = "timed search"
    /\ apiKey = FALSE
    /\ system = "uninitialized"
    /\ cachedCatalog = NullCatalog
    /\ runs = 0
    /\ RunStart
    /\ ToolsIdle

NextTimedSearch ==
    \/ \E searchTerm \in TimedTerms, timeframe \in Timeframes :
           CallDatabaseSearch(searchTerm, timeframe)
    \/ \E outcome \in GitHubOutcomes : GitHubFetchSettles(outcome)
    \/ \E delivered \in BOOLEAN : PageSearchSettles(delivered)
    \/ \E outcome \in PageSearchOutcomes : SearchResultsOrTimeout(outcome)

SpecTimedSearch ==
    InitTimedSearch /\ [][NextTimedSearch]_vars


\* ---------------------------------------------------------------------------
\* The dataset stage of the orchestrator that searches with a timeframe
\* (src/unnamed/part_004:205-236), on the databaseSearch above.

\* The search terms of a run, as extractSearchTerms returns them: distinct.
TermLists ==
    {<<<<"D", "E", "M">>>>, <<<<"D", "E", "M">>, <<"l", "a", "n", "d">>>>, <<<<"i", "c", "e">>, <<"D", "E", "M">>>>}

\* The stage starts: the terms and the timeframe of the run are known.
BeginDatasetSearch(terms, timeframe) ==
    /\ workflow = "timed search"
    /\ pc \in {"idle", "code"}
    /\ pc' = "search"
    /\ searchTerms' = terms
    /\ allDatasets' = <<>>
    /\ state' = NoState
    /\ timedSearch' = [NoTimedSearch EXCEPT !.timeframe = timeframe]
    /\ UNCHANGED <<bridgeVars, searches, completion, extraction, chatVars, workflow, apiKey,
                   system, input, assessmentResult, datasetSelectionText, cachedCatalog,
                   consoleCheckResult, result, settled, calls, runs>>

\* One turn of the loop: databaseSearch(term, timeframe) is called.
SearchTerm ==
    /\ pc = "search"
    /\ searchTerms # <<>>
    /\ timedSearch.pc = "idle"
    /\ CallDatabaseSearch(Head(searchTerms), timedSearch.timeframe)

\* The search returned: its datasets are appended, and after the last term the
\* duplicates are removed and the first five datasets are stored.
CollectDatasets ==
    /\ workflow = "timed search"
    /\ pc = "search"
    /\ timedSearch.pc = "returned"
    /\ LET all == allDatasets \o timedSearch.results
       IN  /\ allDatasets' = all
           /\ searchTerms' = Tail(searchTerms)
           /\ IF Tail(searchTerms) # <<>>
              THEN UNCHANGED <<state, pc>>
              ELSE /\ state' = [state EXCEPT
                          !.selectedDatabases =
                              Some(Slice0(removeDuplicateDatasets(all), MaxSelected))]
                   /\ pc' = "code"
    /\ timedSearch' = [NoTimedSearch EXCEPT !.timeframe = timedSearch.timeframe]
    /\ UNCHANGED <<bridgeVars, searches, completion, extraction, chatVars, workflow, apiKey,
                   system, input, assessmentResult, datasetSelectionText, cachedCatalog,
                   consoleCheckResult, result, settled, calls, runs>>

NextTimedSelection ==
    \/ \E terms \in TermLists, timeframe \in Timeframes : BeginDatasetSearch(terms, timeframe)
    \/ SearchTerm
    \/ \E outcome \in GitHubOutcomes : GitHubFetchSettles(outcome)
    \/ \E delivered \in BOOLEAN : PageSearchSettles(delivered)
    \/ \E outcome \in PageSearchOutcomes : SearchResultsOrTimeout(outcome)
    \/ CollectDatasets

SpecTimedSelection ==
    InitTimedSearch /\ [][NextTimedSelection]_vars
\* ---------------------------------------------------------------------------
\* The code extraction on its own: extractCodeBlock of index.ts, and the
\* extraction inside the code generator agent and the debugger agent.

\* A reply that holds one fenced block: text before it, the opening fence with
\* a language tag, the inner text on lines of its own, the closing fence, and
\* text after it.
FencedReply(before, tag, inner, after) ==
    [text |-> before \o Fence \o tag \o <<"\n">> \o inner \o <<"\n">> \o Fence \o after,
     inner |-> inner, fenced |-> TRUE]

\* A reply without a fence.
PlainReply(text) ==
    [text |-> text, inner |-> <<>>, fenced |-> FALSE]

LanguageTags ==
    {<<>>, <<"j", "s">>, <<"j", "a", "v", "a", "s", "c", "r", "i", "p", "t">>, <<"t", "s">>}

InnerTexts ==
    {<<"M", "a", "p">>, <<" ", " ", "a", "\n", "b">>, <<"\n", "M", "a", "p", "\n">>,
     <<"a", "\n", "\n", "b">>, <<>>}

CompletionReplies ==
    {FencedReply(before, tag, inner, after) :
        before \in {<<>>, <<"H", "i", "\n">>}, tag \in LanguageTags, inner \in InnerTexts,
        after \in {<<>>, <<"\n", "o", "k">>}}
    \cup {PlainReply(text) : text \in {<<"M", "a", "p", ".", "f", "i", "x">>, <<" ", "x", " ", "\n">>, <<>>,
                                        <<"H", "i", "\n", "M", "a", "p">>}}

\* The state the code generator agent works on: a plan and one dataset.
StateWithDatasets ==
    [NoState EXCEPT !.taskPlan = Some(PlanText),
                    !.selectedDatabases = Some(<<getSampleCatalog[1]>>)]

\* The state the debugger agent works on: code and the errors of the console.
StateWithErrors ==
    [StateWithDatasets EXCEPT
        !.generatedCode = Some(BareCode),
        !.errors = Some(<<[level |-> "error", message |-> "console error"]>>)]

\* The three extractions applied to the reply.
ExtractCode ==
    /\ workflow = "extraction"
    /\ extraction = None
    /\ extraction' = Some(
           [extractCodeBlock |-> extractCodeBlock(completion.text),
            codeGenerator |->
                codeGeneratorAgent(StateWithDatasets, TRUE, Reply(completion.text)).state.generatedCode[1],
            codeDebugger |->
                codeDebuggerAgent(StateWithErrors, TRUE, Reply(completion.text)).state.generatedCode[1]])
    /\ UNCHANGED <<pipelineVars, bridgeVars, searches, timedSearch, completion, chatVars>>

InitExtraction ==
    /\ workflow = "extraction"
    /\ apiKey = TRUE
    /\ system = "uninitialized"
    /\ cachedCatalog = NullCatalog
    /\ runs = 0
    /\ RunStart
    /\ searches = [caller \in Searchers |-> NoSearch]
    /\ timedSearch = NoTimedSearch
    /\ completion \in CompletionReplies
    /\ extraction = None
    /\ chatInput = <<>>
    /\ isLoading = FALSE
    /\ messages = <<>>
    /\ inFlight = 0
    /\ bridgeCall = NoBridgeCall
    /\ page = NoPage
    /\ timers = 0

NextExtraction ==
    ExtractCode

SpecExtraction ==
    InitExtraction /\ [][NextExtraction]_vars

\* ---------------------------------------------------------------------------
\* The chat (src/src/components/ChatInterface.tsx). A call of the agent system
\* is a promise that settles later; the pipeline behind it is left out.

\* The texts a user types.
ChatTexts ==
    {<<>>, <<" ">>, <<"d", "e", "m">>}

\* The number of messages a chat session is followed for.
MaxMessages == 5

Message(role, content) ==
    [role |-> role, content |-> content]

\* What the useEffect on mount leaves in agentSystem. setAgentSystem(() => system)
\* stores the processing function. setAgentSystem(system) hands the function to
\* React as an updater: React calls it and stores what it returns, a promise.
\* When initializeAgentSystem throws, agentSystem stays null.
StoredSystems ==
    {"processingFunction", "promise", "setup failed"}

SetupCompletes(stored) ==
    /\ workflow = "chat"
    /\ system = "uninitialized"
    /\ system' = stored
    /\ UNCHANGED <<workflow, apiKey, pc, input, state, assessmentResult,
                   datasetSelectionText, searchTerms, allDatasets, cachedCatalog,
                   consoleCheckResult, result, settled, calls, runs,
                   searches, timedSearch, completion, extraction, chatVars, bridgeVars>>

\* onChange of the input field, which is disabled while isLoading.
ChangeInput(text) ==
    /\ workflow = "chat"
    /\ ~isLoading
    /\ chatInput' = text
    /\ UNCHANGED <<pipelineVars, bridgeVars, searches, timedSearch, completion, extraction,
                   isLoading, messages, inFlight, timers>>

\* The form is submitted (the Send button, which is disabled while isLoading
\* or with a blank input, or the Enter key, which submits only when the button
\* is enabled). handleSubmit runs up to the await of the agent system; without
\* an agent system it starts the timer of one second and its finally block
\* runs at once; calling a stored promise throws into the inner catch.
\* onQuerySubmit may throw.
HandleSubmit(tracked) ==
    /\ workflow = "chat"
    /\ ~(isLoading \/ Trim(chatInput) = <<>>)
    /\ Len(messages) < MaxMessages
    /\ chatInput' = <<>>
    /\ IF ~tracked
       THEN /\ messages' = messages \o <<Message("user", Trim(chatInput)),
                                         Message("assistant", "error")>>
            /\ isLoading' = FALSE
            /\ UNCHANGED <<inFlight, timers>>
       ELSE IF system = "promise"
       THEN /\ messages' = messages \o <<Message("user", Trim(chatInput)),
                                         Message("assistant", "agent error")>>
            /\ isLoading' = FALSE
            /\ UNCHANGED <<inFlight, timers>>
       ELSE /\ messages' = Append(messages, Message("user", Trim(chatInput)))
            /\ IF system = "processingFunction"
               THEN /\ inFlight' = inFlight + 1
                    /\ isLoading' = TRUE
                    /\ UNCHANGED timers
               ELSE /\ timers' = timers + 1
                    /\ isLoading' = FALSE
                    /\ UNCHANGED inFlight
    /\ UNCHANGED <<pipelineVars, bridgeVars, searches, timedSearch, completion, extraction>>

\* The call of the agent system settles: the response, or the error message of
\* the inner catch, is appended, and the finally block runs.
AgentSystemSettles(valid) ==
    /\ workflow = "chat"
    /\ inFlight > 0
    /\ inFlight' = inFlight - 1
    /\ messages' = Append(messages, Message("assistant",
                                            IF valid THEN "response" ELSE "agent error"))
    /\ isLoading' = FALSE
    /\ UNCHANGED <<pipelineVars, bridgeVars, searches, timedSearch, completion, extraction,
                   chatInput, timers>>

\* The timer of the fallback fires: the message that the system is still
\* initializing is appended and isLoading is set to false.
TimerFires ==
    /\ workflow = "chat"
    /\ timers > 0
    /\ timers' = timers - 1
    /\ messages' = Append(messages, Message("assistant", "still initializing"))
    /\ isLoading' = FALSE
    /\ UNCHANGED <<pipelineVars, bridgeVars, searches, timedSearch, completion, extraction,
                   chatInput, inFlight>>

InitChat ==
    /\ workflow = "chat"
    /\ apiKey = TRUE
    /\ system = "uninitialized"
    /\ cachedCatalog = NullCatalog
    /\ runs = 0
    /\ RunStart
    /\ ToolsIdle

NextChat ==
    \/ \E stored \in StoredSystems : SetupCompletes(stored)
    \/ \E text \in ChatTexts : ChangeInput(text)
    \/ \E tracked \in BOOLEAN : HandleSubmit(tracked)
    \/ \E valid \in BOOLEAN : AgentSystemSettles(valid)
    \/ TimerFires

SpecChat ==
    InitChat /\ [][NextChat]_vars

\* ---------------------------------------------------------------------------
\* Properties.

\* The positions of the run's calls of a stage operation.
CallsOf(op) ==
    {i \in 1..Len(calls) : calls[i].op = op}

Invoked(op) ==
    CallsOf(op) # {}

FailedCall(op) ==
    \E i \in CallsOf(op) : ~calls[i].ok

\* A text that is empty or holds white space only.
IsBlankText(text) ==
    \A i \in 1..Len(text) : text[i] \in WhiteSpace

\* Which keywords a request matches and how many reference snippets match it.
keywordFacts ==
    [query \in Inputs |->
        [negative |-> SomeKeyword(negativeKeywords, ToLowerCase(query)),
         positive |-> SomeKeyword(positiveKeywords, ToLowerCase(query)),
         snippets |-> Len(searchDocumentation(query))]]

\* The kind of the response the call settled with.
ResponseKind ==
    result[1].response[1].kind

\* C1: one call of the agent system settles exactly once, and it resolves with
\* a response that has a response text and a code string, whatever the request,
\* the verdict, and the outcomes of the completion calls and the catalog
\* request; no call is rejected.
C1_OneTerminalResponse ==
    /\ settled <= 1
    /\ (pc = "done") <=> (result # None)
    /\ (pc = "done") <=> (settled = 1)
    /\ result # None =>
          /\ result[1].outcome = "resolved"
          /\ result[1].response # None
          /\ result[1].code # None

\* A run in which the catalog request and a completion call both failed has
\* ended.
C1_Witness ==
    /\ pc = "done"
    /\ FailedCall("catalog request")
    /\ FailedCall("code completion")
    /\ result[1].outcome = "resolved"

\* C2: for an empty or white-space-only request the call returns the fixed
\* invalid-query response with no code and invokes no stage operation.
C2_BlankInputRefused ==
    (system = "processingFunction" /\ input # None /\ IsBlankText(input[1])) =>
        /\ calls = <<>>
        /\ pc = "done"
        /\ ResponseKind = "invalid query"
        /\ result[1].code[1] \in {NoCodeInvalidInput, NoCodeEmptyInput}

\* C3: for a request that matches a negative keyword and no positive keyword,
\* the only stage operation of the run is the feasibility assessment; once it
\* has returned, the verdict is infeasible and the run has ended with the
\* explanation as its response.
C3_NegativeOnlyStopsAfterAssessment ==
    (input # None /\ keywordFacts[input[1]].negative /\ ~keywordFacts[input[1]].positive) =>
        /\ \A i \in 1..Len(calls) : calls[i].op = "assessProblem"
        /\ assessmentResult # None =>
              /\ ~assessmentResult[1].feasible
              /\ pc = "done"
              /\ calls = <<Call("assessProblem", TRUE)>>
              /\ ResponseKind = "not the right tool"
              /\ result[1].response[1].detail = assessmentResult[1].explanation

\* The request "hotel booking" has been assessed.
C3_Witness ==
    /\ input = Some(HotelInput)
    /\ assessmentResult # None
    /\ pc = "done"

\* C4: the verdict of the assessment follows the decision table: a negative
\* keyword gives infeasible, also when a positive keyword matches; otherwise a
\* positive keyword or at least two matching snippets give feasible; otherwise
\* the verdict is feasible with the hedged explanation.
C4_DecisionTable ==
    assessmentResult # None =>
        LET facts == keywordFacts[input[1]]
            assessment == assessmentResult[1]
        IN  IF facts.negative
            THEN ~assessment.feasible
            ELSE IF facts.positive \/ facts.snippets >= 2
                 THEN /\ assessment.feasible
                      /\ assessment.explanation = "can be accomplished"
                 ELSE /\ assessment.feasible
                      /\ assessment.explanation = "might be accomplishable"

\* The request "traffic map", which matches a negative and a positive keyword,
\* has been assessed.
C4_Witness ==
    /\ input = Some(TrafficMapInput)
    /\ keywordFacts[TrafficMapInput].negative
    /\ keywordFacts[TrafficMapInput].positive
    /\ assessmentResult # None
    /\ ~assessmentResult[1].feasible

\* C5: for the request "What's the best pizza in Chicago?" the assessment
\* returns infeasible, the run ends with the response that explains it, and no
\* code is generated.
C5_PizzaIsInfeasible ==
    (input = Some(PizzaInput) /\ assessmentResult # None) =>
        /\ ~assessmentResult[1].feasible
        /\ pc = "done"
        /\ ResponseKind = "not the right tool"
        /\ ~Invoked("code completion")

\* C6: when the completion call of the plan stage has failed, the run has ended
\* with the error response of the planning stage and the failed call is the
\* last stage operation of the run.
C6_PlanFailureTerminates ==
    FailedCall("plan completion") =>
        /\ pc = "done"
        /\ calls[Len(calls)] = Call("plan completion", FALSE)
        /\ ResponseKind = IF workflow = "minimal" THEN "planning error"
                          ELSE "openai api error"
        /\ state.taskPlan = None

\* The plan completion of the agent workflow has failed.
C6_Witness ==
    /\ workflow = "agents"
    /\ FailedCall("plan completion")
    /\ Invoked("plannerAgent")

\* C7: when the dataset selection has ended with no dataset, the code
\* completion is not invoked and the run ends with the response that no
\* datasets were found.
C7_EmptySelectionTerminates ==
    state.selectedDatabases = Some(<<>>) =>
        /\ ~Invoked("code completion")
        /\ pc = "done" => ResponseKind = "no datasets found"

\* C8: when the completion call of the code generator has failed, runCode and
\* the summarizer are not invoked, and the run ends with the error response of
\* the code generation stage.
C8_CodeFailureTerminates ==
    FailedCall("code completion") =>
        /\ ~Invoked("runCode")
        /\ ~Invoked("summarizerAgent")
        /\ pc = "done" => ResponseKind = "code generation error"

\* C9: in a run whose console check reported an error-level diagnostic, the
\* debugger is invoked once and runCode twice by the time the execution stage
\* is over; no run invokes the debugger more than once or runCode more than
\* twice.
C9_OneRepairAttempt ==
    /\ Cardinality(CallsOf("codeDebuggerAgent")) <= 1
    /\ Cardinality(CallsOf("runCode")) <= 2
    /\ (/\ consoleCheckResult # None
        /\ \E i \in 1..Len(consoleCheckResult[1].errors) :
               consoleCheckResult[1].errors[i].level = "error"
        /\ pc \in {"summarizer", "done"}) =>
           /\ Cardinality(CallsOf("codeDebuggerAgent")) = 1
           /\ Cardinality(CallsOf("runCode")) = 2

\* C10: within a run, a step taken when the state holds a response leaves the
\* response as it is.
C10_ResponseSetOnce ==
    [][(state.response # None /\ pc # "done") => state'.response = state.response]_vars

\* C11: every run that has started eventually returns its terminal response,
\* also when the page never answers a Bridge message (runCode, checkConsole,
\* inspectMap): the wait ends and the run goes on to its response.
C11_EveryRunReturns ==
    (pc \notin {"idle", "done"}) ~> (pc = "done")

\* The callers whose call found the catalog in the cache and has returned.
CachedSearches ==
    {caller \in Searchers : searches[caller].pc = "done" /\ searches[caller].cached}

\* C12: once the catalog is cached, search is idempotent: a call that finds the
\* catalog in the cache issues no network request, and two such calls with the
\* same term return the same ordered result.
C12_CachedSearchIdempotent ==
    \A a \in CachedSearches, b \in CachedSearches :
        /\ ~searches[a].fetched
        /\ searches[a].term = searches[b].term => searches[a].result = searches[b].result

\* C13: of the searches that start while the catalog is not cached, one issues
\* the network request and the others wait for it: at no time are two requests
\* for the catalog in flight.
C13_OneFetchInFlight ==
    Cardinality({caller \in Searchers : searches[caller].pc = "fetching"}) <= 1

\* C14: when the request for the catalog has failed (network failure, a
\* response that is not ok, or a malformed body), the search falls back to the
\* built-in sample: it does not turn to another source, and the datasets it
\* returns are entries of the sample.
C14_FetchFailureFallsBackToSample ==
    timedSearch.fetch \in {"network error", "not ok", "malformed"} =>
        /\ timedSearch.pc = "returned"
        /\ \A i \in 1..Len(timedSearch.results) :
               \E k \in 1..Len(getSampleCatalog) :
                   getSampleCatalog[k].id = timedSearch.results[i].name

\* The place of a dataset in the catalog.
CatalogPosition(name) ==
    CHOOSE k \in 1..Len(TimedCatalog) : TimedCatalog[k].id = name

\* Two ranked datasets between which the ranking does not decide: the same
\* score or, without a timeframe, both ongoing or the same end date.
EqualRank(a, b) ==
    IF a.timeScore # <<>>
    THEN a.timeScore = b.timeScore
    ELSE (Ongoing(a.endDate) /\ Ongoing(b.endDate)) \/ a.endDate = b.endDate

\* C15: the ranking of the matching datasets of the catalog is a stable order:
\* with a timeframe the result is sorted by descending score, and, with a
\* timeframe or without one, datasets of equal rank keep their catalog order.
C15_RankingIsStable ==
    (timedSearch.pc = "returned" /\ timedSearch.source = "GitHub Catalog") =>
        \A i, j \in 1..Len(timedSearch.results) :
            i < j =>
                LET a == timedSearch.results[i]
                    b == timedSearch.results[j]
                IN  /\ a.timeScore # <<>> => a.timeScore[1] >= b.timeScore[1]
                    /\ EqualRank(a, b) => CatalogPosition(a.name) < CatalogPosition(b.name)

\* The text without its leading blank lines.
RECURSIVE DropLeadingBlankLines(_)
DropLeadingBlankLines(text) ==
    LET newline == IndexOfFrom(text, <<"\n">>, 1)
    IN  IF newline = 0
        THEN IF IsBlankText(text) THEN <<>> ELSE text
        ELSE IF IsBlankText(SubSeq(text, 1, newline - 1))
             THEN DropLeadingBlankLines(SubSeq(text, newline + 1, Len(text)))
             ELSE text

Reverse(text) ==
    [i \in 1..Len(text) |-> text[Len(text) + 1 - i]]

\* The text without its leading and trailing blank lines.
WithoutBlankLines(text) ==
    Reverse(DropLeadingBlankLines(Reverse(DropLeadingBlankLines(text))))

\* C16: for a reply that holds exactly one fenced block, with or without a
\* language tag, extractCodeBlock and the extraction of the code generator
\* return the inner text of the block without its leading and trailing blank
\* lines: no fence, no tag.
C16_ExtractionRoundTrip ==
    (extraction # None /\ completion.fenced) =>
        /\ extraction[1].extractCodeBlock = WithoutBlankLines(completion.inner)
        /\ extraction[1].codeGenerator = WithoutBlankLines(completion.inner)

\* C17: for a reply without a fenced block, extractCodeBlock, the code
\* generator and the debugger take the whole reply, unchanged, as the code.
C17_NoFenceKeepsReply ==
    (extraction # None /\ ~Includes(completion.text, Fence)) =>
        /\ extraction[1].extractCodeBlock = completion.text
        /\ extraction[1].codeGenerator = completion.text
        /\ extraction[1].codeDebugger = completion.text

\* C18: at most one pipeline run is in flight in a chat session: while a call
\* of the agent system has not settled, and so its response is not appended
\* yet, no submission starts another call.
C18_OneRunInFlight ==
    inFlight <= 1

\* The completion calls of the run's stages.
CompletionCalls ==
    {"plan completion", "dataset completion", "code completion"}

\* C19: when the planner, the database selector and the code generator have
\* been applied in that order to a feasible request and every completion call
\* has succeeded, the state the code generator returns has taskPlan,
\* selectedDatabases, generatedCode and response set; no agent changes the input.
C19_ThreeAgentsFillTheState ==
    [][(workflow = "agents" /\ pc \in {"planner", "selector", "generator"}) =>
          /\ input' = input
          /\ (/\ pc = "generator"
              /\ assessmentOf[input[1]].feasible
              /\ Call("plan completion", TRUE) \in Range(calls')
              /\ \A op \in CompletionCalls : ~Call(op, FALSE) \in Range(calls')) =>
                 /\ state'.taskPlan # None
                 /\ state'.selectedDatabases # None
                 /\ state'.generatedCode # None
                 /\ state'.response # None]_vars

\* C20: whenever the completion call of the code generator has succeeded, the
\* next stage operations of the run are runCode and then checkConsole, before
\* the summarizer and before the run ends.
C20_GeneratedCodeIsRun ==
    \A i \in CallsOf("code completion") :
        calls[i].ok =>
            /\ Len(calls) > i => calls[i + 1].op = "runCode"
            /\ Len(calls) > i + 1 => calls[i + 2].op = "checkConsole"
            /\ pc = "done" => Len(calls) > i + 1

\* The responses that report the failure of a stage.
StageFailureKinds ==
    {"planning error", "dataset selection error", "code generation error",
     "openai api error", "debugging error", "summary error",
     "generated code without summary"}

\* C21: a terminal response that reports the failure of a stage carries a
\* debug log with at least one entry.
C21_FailureCarriesLog ==
    (result # None /\ result[1].response # None /\ ResponseKind \in StageFailureKinds) =>
        /\ result[1].debugLog # None
        /\ result[1].debugLog[1] # <<>>

\* How the coverage of a dataset meets the requested period, in years: 2 when
\* it contains the period, 1 when it overlaps it, 0 when it does not. The
\* coverage of an ongoing dataset ends in the current year.
Overlap(name, timeframe) ==
    LET dataset == TimedCatalog[CatalogPosition(name)]
        datasetStart == parseInt(Year(dataset.startDate))
        datasetEnd == IF Ongoing(dataset.endDate) THEN parseInt(currentYear)
                      ELSE parseInt(Year(dataset.endDate))
        requestStart == parseInt(Year(timeframe.start))
        requestEnd == parseInt(Year(timeframe.end))
    IN  IF datasetStart <= requestStart /\ requestEnd <= datasetEnd THEN 2
        ELSE IF datasetStart <= requestEnd /\ requestStart <= datasetEnd THEN 1
        ELSE 0

\* C22: with a timeframe that has a start and an end, a dataset whose coverage
\* contains the period scores more than one that overlaps it in part, which
\* scores more than one that does not overlap it, ongoing or not.
C22_ContainmentOverOverlapOverNone ==
    (/\ timedSearch.pc = "returned"
     /\ timedSearch.source = "GitHub Catalog"
     /\ timedSearch.timeframe.start # <<>>
     /\ timedSearch.timeframe.end # <<>>) =>
        \A i, j \in 1..Len(timedSearch.results) :
            LET a == timedSearch.results[i]
                b == timedSearch.results[j]
            IN  Overlap(a.name, timedSearch.timeframe) > Overlap(b.name, timedSearch.timeframe)
                    => a.timeScore[1] > b.timeScore[1]

\* The start date of a dataset of the catalog.
StartDate(name) ==
    TimedCatalog[CatalogPosition(name)].startDate

\* C23: without a timeframe the ranking is by recency: no dataset that has ended
\* stands before an ongoing one, a dataset that ended earlier does not stand
\* before one that ended later, and of two ongoing datasets the one that
\* started later does not stand before the one that started earlier.
C23_RecencyAndLongerRunningFirst ==
    (/\ timedSearch.pc = "returned"
     /\ timedSearch.source = "GitHub Catalog"
     /\ timedSearch.timeframe.start = <<>>
     /\ timedSearch.timeframe.end = <<>>) =>
        \A i, j \in 1..Len(timedSearch.results) :
            i < j =>
                LET a == timedSearch.results[i]
                    b == timedSearch.results[j]
                IN  /\ Ongoing(b.endDate) => Ongoing(a.endDate)
                    /\ (~Ongoing(a.endDate) /\ ~Ongoing(b.endDate)) =>
                           StringAtMost(b.endDate, a.endDate)
                    /\ (Ongoing(a.endDate) /\ Ongoing(b.endDate)) =>
                           StringAtMost(StartDate(a.name), StartDate(b.name))

\* C24: a run uses the key that is stored at the time of the run: it does not
\* answer that no key is configured while one is stored, and it sends no
\* completion request while none is stored.
C24_KeyReadForEachRun ==
    pc # "idle" =>
        /\ (result # None /\ result[1].response # None /\ ResponseKind = "missing api key")
               => ~apiKey
        /\ (\E op \in CompletionCalls \cup {"summary completion"} : Invoked(op)) => apiKey

\* The completion calls of the five stages.
StageCompletions ==
    CompletionCalls \cup {"debug completion", "summary completion"}

\* C25: in one run each stage sends its completion request at most once, also
\* when the request fails: a failed completion call is the only one of its
\* stage.
C25_NoCompletionRetry ==
    \A op \in StageCompletions : Cardinality(CallsOf(op)) <= 1

\* A run of the agent workflow has ended in which every stage sent its
\* completion request and the request of the debugger failed.
C25_Witness ==
    /\ pc = "done"
    /\ FailedCall("debug completion")
    /\ \A op \in StageCompletions : Cardinality(CallsOf(op)) = 1


\* C26: a Bridge tool wrapper (runCode, inspectMap, checkConsole, getTasks,
\* editScript) never rejects, and once it has settled it has resolved with a
\* result object; when the send found no active tab or reported an error,
\* the result has success = false.
C26_WrappersResolveUnsuccessful ==
    /\ bridgeCall.outcome # "rejected"
    /\ bridgeCall.pc = "settled" =>
           /\ bridgeCall.outcome = "resolved"
           /\ bridgeCall.sent \in {"no tab", "lastError"} => ~bridgeCall.success

\* Every wrapper settles after a send that found no tab or reported an error.
C26_Witness ==
    /\ bridgeCall.pc = "settled"
    /\ bridgeCall.tool = "runCode"
    /\ bridgeCall.sent = "lastError"
    /\ ~bridgeCall.success

\* The responses by which a stage reports that it has failed.
ErrorResponseKinds ==
    {"missing api key", "dataset selection error", "code generation error",
     "openai api error", "debugging error"}

\* The step is an invocation of the Bridge's runCode.
RunCodeInvoked ==
    /\ Len(calls') = Len(calls) + 1
    /\ calls'[Len(calls')].op = "runCode"

\* C27: the Bridge's runCode is never invoked with empty code, with the
\* "// Error generating code" placeholder, or when a stage of the run has
\* already set an error response.
C27_RunCodeOnlyWithGeneratedCode ==
    [][RunCodeInvoked =>
           /\ OrElse(state.generatedCode, <<>>) # <<>>
           /\ OrElse(state.generatedCode, <<>>) # ErrorGeneratingCode
           /\ ~(state.response # None /\ state.response[1].kind \in ErrorResponseKinds)]_vars

\* C28: the listener of the content script answers a message of a handled
\* type (RUN_CODE, INSPECT_MAP, CHECK_CONSOLE, GET_TASKS, EDIT_SCRIPT,
\* CHECK_PAGE) with exactly one sendResponse call, whether its handler
\* succeeded or failed, and a message of any other type with none.
C28_ExactlyOneResponse ==
    /\ [](page.responses <= 1)
    /\ [](page.type \notin HandledTypes => page.responses = 0)
    /\ [](page.type \in HandledTypes /\ page.pc = "settled" => page.responses = 1)
    /\ (page.type \in HandledTypes) ~> (page.responses = 1)

\* A RUN_CODE message whose wait gave up has been answered once, with a failure.
C28_Witness ==
    /\ page.type = "RUN_CODE"
    /\ page.pc = "settled"
    /\ page.isReady = "false"
    /\ page.responses = 1
    /\ ~page.success

\* C29: waitForEarthEngineRunButton resolves true at the first poll that finds
\* the run button, and it does not poll more than maxAttempts times.
C29_TrueAtFirstSightWithinMaxAttempts ==
    [][page.pc = "waiting" =>
           /\ page'.polls <= maxAttempts
           /\ (page'.polls > page.polls /\ page.runButton) => page'.isReady = "true"
           /\ page'.isReady = "true" => (page'.polls > page.polls /\ page.runButton)]_vars

\* waitForEarthEngineRunButton terminates: a pending wait is resolved.
WaitTerminates ==
    (page.pc = "waiting") ~> (page.isReady # "pending")

\* The catalog id of a dataset object: its id, or the name that holds the id
\* in the objects of the search with a timeframe.
CatalogId(dataset) ==
    IF "id" \in DOMAIN dataset THEN dataset.id ELSE dataset.name

\* The datasets of a list without those whose catalog entry came earlier.
RECURSIVE FirstOccurrences(_, _)
FirstOccurrences(datasets, seen) ==
    IF datasets = <<>> THEN <<>>
    ELSE IF CatalogId(Head(datasets)) \in seen
         THEN FirstOccurrences(Tail(datasets), seen)
         ELSE <<Head(datasets)>>
              \o FirstOccurrences(Tail(datasets), seen \cup {CatalogId(Head(datasets))})

\* C30: the dataset list the dataset stage stores is the first five (or fewer)
\* distinct catalog entries of the results of its searches, in the order of
\* their first occurrence.
C30_FirstFiveDistinctEntries ==
    (workflow = "timed search" /\ pc = "code") =>
        state.selectedDatabases
            = Some(Slice0(FirstOccurrences(allDatasets, {}), MaxSelected))

\* The same statement for the dataset stage of lib/agents/index.ts, at the turn
\* of the loop that stores the list: the results are those of the turns before
\* and of the search of this turn.
SelectionOfMinimalWorkflow ==
    [][(workflow = "minimal" /\ pc = "search" /\ pc' = "code") =>
           \E outcome \in FetchOutcomes :
               LET fetched == fetchCatalog(cachedCatalog, outcome)
                   all == allDatasets \o databaseSearch[fetched.catalog][Head(searchTerms)]
               IN  /\ cachedCatalog' = fetched.cache
                   /\ state'.selectedDatabases
                          = Some(Slice0(FirstOccurrences(all, {}), MaxSelected))]_vars
====
